---- MODULE Spec2Model ----
(***************************************************************************)
(* A model of the observer-ecology trading simulator: the trading-signal   *)
(* and position state machine (tradingService), trading credit assignment  *)
(* (rlTradingService), the experience buffer (evolutionaryLearningService), *)
(* and the React controller of App.tsx that drives simulation steps and    *)
(* training epochs.                                                        *)
(*                                                                         *)
(* Number representation (all exact integers or rationals):                *)
(*   prices                dollars                                         *)
(*   confidence / reward   percent (0.60 is 60, the initial -1 is -100)    *)
(*   volatilityEstimate    thousandths (0.05 is 50)                        *)
(*   trendStrength,                                                        *)
(*   phaseConsensus        tenths (0.6 is 6)                               *)
(*   stop loss             hundredths of a percent (1.0% is 100)           *)
(*   position size         units of 1.6e-8 BTC (0.01 BTC is 625000)        *)
(*   pnl                   price difference times size, in size units      *)
(*   pnlPercent            the rational num/den, den the entry price       *)
(*   proposedSize          tenths (1.0 is 10)                              *)
(*   lifetimeTradingPnL    pnl units times tenths                          *)
(* An optional value (T | null, field?: T) is <<>> when absent and <<v>>   *)
(* when present.                                                           *)
(***************************************************************************)
EXTENDS Integers, Sequences, FiniteSets, TLC

VARIABLES
    params,                 \* App.tsx:42   SimulationParams
    isRunning,              \* App.tsx:43
    guild,                  \* App.tsx:44   Guild | null
    currentTimeStep,        \* App.tsx:45
    marketData,             \* App.tsx:59   Candle[] | null
    pendingFetches,         \* App.tsx:104  fetchMarketData calls in flight
    tradingStats,           \* App.tsx:64
    trainingState,          \* App.tsx:76
    preservedObserversRef,  \* App.tsx:89
    lastTradeRef,           \* App.tsx:96
    closureTrainingState,   \* the trainingState captured by runSimulationStep (App.tsx:316, deps at 707)
    ticks,                  \* number of interval ticks run so far
    userCommands,           \* number of user commands issued so far
    reinitialized,          \* history: initializeSimulation has run since the last EpochMetrics append
    lastEvent,              \* what the last transition did (observation only)
    probe                   \* state of the pure-function call sequences

vars == <<params, isRunning, guild, currentTimeStep, marketData, pendingFetches,
          tradingStats, trainingState, preservedObserversRef, lastTradeRef,
          closureTrainingState, ticks, userCommands, reinitialized, lastEvent, probe>>

----------------------------------------------------------------------------
(* Optional values *)

Null == <<>>

Some(v) == <<v>>

IsNull(o) == o = <<>>

\* JavaScript truthiness of an optional number: undefined and 0 are falsy
Falsy(o) == o = <<>> \/ o[1] = 0

\* o || d
OrElse(o, d) == IF Falsy(o) THEN d ELSE o[1]

Max(a, b) == IF a >= b THEN a ELSE b

Min(a, b) == IF a <= b THEN a ELSE b

Actions == {"BUY", "SELL", "HOLD"}

----------------------------------------------------------------------------
(* Program constants *)

\* DEFAULT_CONFIG.minConfidence = 0.60, in percent
MinConfidence == 60

\* effectiveMinConfidence += 0.1 in volatile markets, in percent
VolatileConfidenceBonus == 10

\* DEFAULT_CONFIG.minStopLoss = 1.0 percent, in hundredths of a percent
MinStopLoss == 100

\* DEFAULT_CONFIG.maxStopLoss = 5.0 percent, in hundredths of a percent
MaxStopLoss == 500

\* DEFAULT_CONFIG.basePositionSize = 0.01 BTC, in units of 1.6e-8 BTC
BasePositionSize == 625000

\* MAX_EXPERIENCE_BUFFER
MAX_EXPERIENCE_BUFFER == 500

\* setCurrentTimeStep(60)
StartIndex == 60

\* shouldStopEarly(newMetrics, 3): patience, and the default minEpochs
Patience == 3

MinEpochs == 3

TRAINING_TIMEFRAMES == <<"15m", "1h", "4h", "1d">>

----------------------------------------------------------------------------
(* Ecology features (ecologyFeaturesService) *)

\* variant of detectMarketRegime: the trend test comes first
detectMarketRegimeTrendFirst(trendStrength, volatility) ==
    IF trendStrength > 6 THEN "trending"
    ELSE IF volatility > 50 THEN "volatile"
    ELSE "ranging"

\* detectMarketRegime(trendStrength, volatility)
detectMarketRegime(trendStrength, volatility) ==
    IF volatility > 50 THEN "volatile"
    ELSE IF trendStrength > 6 THEN "trending"
    ELSE "ranging"

\* The EcologyFeatures record extractEcologyFeatures builds from an elite
\* reward and the three measured quantities; the regime is derived.
EcologyFeatures(eliteReward, volatility, trendStrength, phaseConsensus) ==
    [confidence |-> eliteReward,
     volatilityEstimate |-> volatility,
     trendStrength |-> trendStrength,
     phaseConsensus |-> phaseConsensus,
     marketRegime |-> detectMarketRegime(trendStrength, volatility)]

----------------------------------------------------------------------------
(* Trading signal and position state machine (tradingService) *)

\* variant of calculateAdaptiveStopLoss without the lower clamp
calculateAdaptiveStopLossWithoutFloor(volatility, marketRegime) ==
    LET factor == IF marketRegime = "volatile" THEN 15
                  ELSE IF marketRegime = "ranging" THEN 8
                  ELSE 10
        stopLoss == volatility * 2 * factor
    IN  Min(MaxStopLoss, stopLoss)

\* calculateAdaptiveStopLoss: volatility * 200, scaled by the regime, clamped.
\* volatility is in thousandths, so volatility*200 percent is volatility*20
\* hundredths of a percent; the factors 1.5 / 0.8 / 1.0 are 15/10, 8/10, 10/10.
calculateAdaptiveStopLoss(volatility, marketRegime) ==
    LET factor == IF marketRegime = "volatile" THEN 15
                  ELSE IF marketRegime = "ranging" THEN 8
                  ELSE 10
        stopLoss == volatility * 2 * factor
    IN  Max(MinStopLoss, Min(MaxStopLoss, stopLoss))

\* const stopLossPercent = signal.ecologyFeatures && config.useAdaptiveRisk ? ... :
\* config.minStopLoss (useAdaptiveRisk is true in DEFAULT_CONFIG), in hundredths
\* of a percent
stopLossPercentFor(signal) ==
    IF ~IsNull(signal.ecologyFeatures)
    THEN calculateAdaptiveStopLoss(signal.ecologyFeatures[1].volatilityEstimate,
                                   signal.ecologyFeatures[1].marketRegime)
    ELSE MinStopLoss

\* const takeProfitPercent = stopLossPercent * config.rewardRiskRatio (2.5), in
\* two-hundredths of a percent
takeProfitPercentFor(stopLossPercent) == stopLossPercent * 5

\* calculateAdaptivePositionSize, in units of 1.6e-8 BTC:
\*   0.01 * (0.5 + confidence) * (0.8 + 0.4 trend, when trending)
\*        * (0.7 + 0.6 consensus) * (0.6 when volatile)
calculateAdaptivePositionSize(f) ==
    LET confidenceMultiplier == 50 + f.confidence
        trendMultiplier == IF f.marketRegime = "trending"
                           THEN 20 + f.trendStrength ELSE 25
        consensusMultiplier == 35 + 3 * f.phaseConsensus
        volatileMultiplier == IF f.marketRegime = "volatile" THEN 3 ELSE 5
    IN  confidenceMultiplier * trendMultiplier * consensusMultiplier * volatileMultiplier

\* variant of generateTradingSignal without the consensus requirement of
\* ranging markets
generateTradingSignalAnyConsensus(directionAccuracy, lastPrediction, ecologyFeatures) ==
    LET confidence == directionAccuracy
        effectiveMinConfidence ==
            IF ~IsNull(ecologyFeatures) /\ ecologyFeatures[1].marketRegime = "volatile"
            THEN MinConfidence + VolatileConfidenceBonus
            ELSE MinConfidence
    IN  [action |-> IF confidence >= effectiveMinConfidence
                    THEN (IF lastPrediction = "UP" THEN "BUY" ELSE "SELL")
                    ELSE "HOLD",
         confidence |-> confidence,
         predictedDirection |-> lastPrediction,
         ecologyFeatures |-> ecologyFeatures]

\* generateTradingSignal(_, _, directionAccuracy, lastPrediction, _, ecologyFeatures)
\* directionAccuracy is a percentage, so confidence (in percent) equals it.
generateTradingSignal(directionAccuracy, lastPrediction, ecologyFeatures) ==
    LET confidence == directionAccuracy
        withFeatures ==
            LET f == ecologyFeatures[1]
                effectiveMinConfidence ==
                    IF f.marketRegime = "volatile"
                    THEN MinConfidence + VolatileConfidenceBonus
                    ELSE MinConfidence
                requiresConsensus ==
                    f.marketRegime = "ranging" /\ f.phaseConsensus < 5
            IN  IF confidence >= effectiveMinConfidence /\ ~requiresConsensus
                THEN (IF lastPrediction = "UP" THEN "BUY" ELSE "SELL")
                ELSE "HOLD"
        withoutFeatures ==
            IF confidence >= MinConfidence
            THEN (IF lastPrediction = "UP" THEN "BUY" ELSE "SELL")
            ELSE "HOLD"
    IN  [action |-> IF IsNull(ecologyFeatures) THEN withoutFeatures ELSE withFeatures,
         confidence |-> confidence,
         predictedDirection |-> lastPrediction,
         ecologyFeatures |-> ecologyFeatures]

\* pnlPercent of an open position at currentPrice, as the rational num/den
PnlPercent(position, currentPrice) ==
    [num |-> IF position.type = "LONG"
             THEN (currentPrice - position.entryPrice) * 100
             ELSE (position.entryPrice - currentPrice) * 100,
     den |-> position.entryPrice]

\* variant of shouldClose whose stop test is strict (pnlPercent < -stopLossPercent)
shouldCloseStrictStop(signal, position, currentPrice, stopLossPercent) ==
    LET pnlPercent == PnlPercent(position, currentPrice)
    IN  \/ pnlPercent.num * 100 < -stopLossPercent * pnlPercent.den
        \/ pnlPercent.num * 200 >= takeProfitPercentFor(stopLossPercent) * pnlPercent.den
        \/ signal.action = "BUY" /\ position.type = "SHORT"
        \/ signal.action = "SELL" /\ position.type = "LONG"

\* const shouldClose = ... (part_003:168-172); stopLossPercent is in hundredths
\* of a percent and takeProfitPercent = stopLossPercent * 2.5
shouldClose(signal, position, currentPrice, stopLossPercent) ==
    LET pnlPercent == PnlPercent(position, currentPrice)
    IN  \/ pnlPercent.num * 100 <= -stopLossPercent * pnlPercent.den
        \/ pnlPercent.num * 200 >= takeProfitPercentFor(stopLossPercent) * pnlPercent.den
        \/ signal.action = "BUY" /\ position.type = "SHORT"
        \/ signal.action = "SELL" /\ position.type = "LONG"

\* variant of shouldOpen without the confidence threshold
shouldOpenAnyConfidence(signal, newPosition) ==
    /\ IsNull(newPosition)
    /\ signal.action # "HOLD"

\* the condition under which executeTradingSignal opens a position (part_003:191)
shouldOpen(signal, newPosition) ==
    /\ IsNull(newPosition)
    /\ signal.action # "HOLD"
    /\ signal.confidence >= MinConfidence

\* variant of closePosition that leaves exitTime unset
closePositionWithoutExitTime(position, currentPrice, timestamp) ==
    [position EXCEPT
        !.exitPrice = Some(currentPrice),
        !.pnl = Some(IF position.type = "LONG"
                     THEN (currentPrice - position.entryPrice) * position.size
                     ELSE (position.entryPrice - currentPrice) * position.size),
        !.pnlPercent = Some(PnlPercent(position, currentPrice))]

\* closedPosition = { ...currentPosition, exitPrice, exitTime, pnl, pnlPercent }
closePosition(position, currentPrice, timestamp) ==
    [position EXCEPT
        !.exitPrice = Some(currentPrice),
        !.exitTime = Some(timestamp),
        !.pnl = Some(IF position.type = "LONG"
                     THEN (currentPrice - position.entryPrice) * position.size
                     ELSE (position.entryPrice - currentPrice) * position.size),
        !.pnlPercent = Some(PnlPercent(position, currentPrice))]

\* variant of positionAfterClose that keeps the position it has just closed
positionKeptAfterClose(currentPosition, closes) == currentPosition

\* newPosition after the close check: null when the position was closed
positionAfterClose(currentPosition, closes) ==
    IF closes THEN Null ELSE currentPosition

\* executeTradingSignal(signal, currentPosition, currentPrice, timestamp)
executeTradingSignal(signal, currentPosition, currentPrice, timestamp) ==
    LET stopLossPercent == stopLossPercentFor(signal)
        closes ==
            /\ ~IsNull(currentPosition)
            /\ Falsy(currentPosition[1].exitPrice)
            /\ shouldClose(signal, currentPosition[1], currentPrice, stopLossPercent)
        closedPosition ==
            IF closes
            THEN Some(closePosition(currentPosition[1], currentPrice, timestamp))
            ELSE Null
        afterClose == positionAfterClose(currentPosition, closes)
        positionSize ==
            IF ~IsNull(signal.ecologyFeatures)
            THEN calculateAdaptivePositionSize(signal.ecologyFeatures[1])
            ELSE BasePositionSize
        newPosition ==
            IF shouldOpen(signal, afterClose)
            THEN Some([type |-> IF signal.action = "BUY" THEN "LONG" ELSE "SHORT",
                       entryPrice |-> currentPrice,
                       entryTime |-> timestamp,
                       size |-> positionSize,
                       exitPrice |-> Null,
                       exitTime |-> Null,
                       pnl |-> Null,
                       pnlPercent |-> Null])
            ELSE afterClose
    IN  [newPosition |-> newPosition, closedPosition |-> closedPosition]

\* calculateTradingStats(currentPosition, positionHistory): the counters and
\* the total; winRate, maxDrawdown and sharpeRatio are display values derived
\* from the same closed positions and are not represented.
RECURSIVE SumPnl(_)
SumPnl(positions) ==
    IF positions = <<>> THEN 0
    ELSE OrElse(Head(positions).pnl, 0) + SumPnl(Tail(positions))

\* variant of calculateTradingStats: the open position counts as a trade
calculateTradingStatsCountingOpen(currentPosition, positionHistory) ==
    LET closedPositions == SelectSeq(positionHistory, LAMBDA p : ~IsNull(p.pnl))
    IN  [totalTrades |-> Len(closedPositions) + Len(currentPosition),
         winningTrades |-> Len(SelectSeq(closedPositions, LAMBDA p : p.pnl[1] > 0)),
         losingTrades |-> Len(SelectSeq(closedPositions, LAMBDA p : p.pnl[1] <= 0)),
         totalPnL |-> SumPnl(closedPositions),
         currentPosition |-> currentPosition,
         positionHistory |-> positionHistory]

calculateTradingStats(currentPosition, positionHistory) ==
    LET closedPositions == SelectSeq(positionHistory, LAMBDA p : ~IsNull(p.pnl))
    IN  [totalTrades |-> Len(closedPositions),
         winningTrades |-> Len(SelectSeq(closedPositions, LAMBDA p : p.pnl[1] > 0)),
         losingTrades |-> Len(SelectSeq(closedPositions, LAMBDA p : p.pnl[1] <= 0)),
         totalPnL |-> SumPnl(closedPositions),
         currentPosition |-> currentPosition,
         positionHistory |-> positionHistory]

----------------------------------------------------------------------------
(* Credit assignment (rlTradingService) *)

\* The number 0 as a tradingReward
ZeroReward == [sigmoid |-> FALSE, num |-> 0, den |-> 1]

\* The tradingReward 1 / (1 + exp(-num/den)): never 0 in exact arithmetic
Sigmoid(num, den) == [sigmoid |-> TRUE, num |-> num, den |-> den]

\* variant of noCredit that credits a HOLD action too
noCreditOnlyWithoutTrade(tradedAction, tradeResult) == IsNull(tradeResult)

\* if (!tradeResult || tradedAction === 'HOLD')
noCredit(tradedAction, tradeResult) ==
    IsNull(tradeResult) \/ tradedAction = "HOLD"

\* variant of creditedLifetimePnL that ignores the proposed size
creditedLifetimePnLUnsized(obs, tradePnL) == obs.lifetimeTradingPnL + tradePnL

\* obs.lifetimeTradingPnL + tradePnL * obs.proposedSize
creditedLifetimePnL(obs, tradePnL) ==
    obs.lifetimeTradingPnL + tradePnL * obs.proposedSize

\* the observer returned for obs by the second map of assignTradingCredit
creditObserver(obs, tradedAction, tradeResult) ==
    LET tradePnL == OrElse(tradeResult.pnl, 0)
        hasPercent == ~IsNull(tradeResult.pnlPercent)
        \* sizeAdjustedPnL * 10 = pnlPercent * proposedSize(in tenths)
        num == IF hasPercent THEN tradeResult.pnlPercent[1].num * obs.proposedSize ELSE 0
        den == IF hasPercent THEN tradeResult.pnlPercent[1].den ELSE 1
    IN  IF obs.proposedAction # tradedAction
        THEN [obs EXCEPT !.contributedToTrade = FALSE, !.tradingReward = ZeroReward]
        ELSE [obs EXCEPT !.contributedToTrade = TRUE,
                         !.tradingReward = Sigmoid(num, den),
                         !.lifetimeTradingPnL = creditedLifetimePnL(obs, tradePnL)]

\* assignTradingCredit(observers, tradedAction, tradeResult)
assignTradingCredit(observers, tradedAction, tradeResult) ==
    IF noCredit(tradedAction, tradeResult)
    THEN [i \in DOMAIN observers |->
            [observers[i] EXCEPT !.contributedToTrade = FALSE, !.tradingReward = ZeroReward]]
    ELSE [i \in DOMAIN observers |->
            creditObserver(observers[i], tradedAction, tradeResult[1])]

----------------------------------------------------------------------------
(* Experience buffer (evolutionaryLearningService) *)

\* variant of recordExperience: a full buffer keeps its oldest records
recordExperienceKeepOldest(observer, experience) ==
    LET appended == Append(observer.experienceBuffer, experience)
    IN  [observer EXCEPT !.experienceBuffer =
            IF Len(appended) > MAX_EXPERIENCE_BUFFER
            THEN SubSeq(appended, 1, MAX_EXPERIENCE_BUFFER)
            ELSE appended]

\* recordExperience(observer, experience): append, keep the last 500
recordExperience(observer, experience) ==
    LET appended == Append(observer.experienceBuffer, experience)
        updatedBuffer ==
            IF Len(appended) > MAX_EXPERIENCE_BUFFER
            THEN SubSeq(appended, Len(appended) - MAX_EXPERIENCE_BUFFER + 1, Len(appended))
            ELSE appended
    IN  [observer EXCEPT !.experienceBuffer = updatedBuffer]

----------------------------------------------------------------------------
(* Bounds of the model *)

\* params.numObservers, the population size
NumObservers == 2

\* the largest params.targetEpochs the user sets
MaxTargetEpochs == 2

\* marketData.length - 62: the number of simulation steps in one pass over the data
PassSteps == 4

\* interval ticks in one behaviour
MaxTicks == 11

\* user commands in one behaviour
MaxUserCommands == 3

\* calls in one behaviour of a pure-function call sequence
MaxCalls == 2

\* DEFAULT_SIMULATION_PARAMS.targetEpochs
DefaultTargetEpochs == 5

\* marketData.length: indices 0 .. DataLength-1
DataLength == StartIndex + 2 + PassSteps

----------------------------------------------------------------------------
(* The state after construction (App.tsx:42-101) *)

\* A learning rate is kept symbolically: <<>> is the rate the user set, and
\* Append(lr, <<e, T>>) is calculateLearningRate(e, T, lr).
BaseLearningRate == <<>>

DEFAULT_SIMULATION_PARAMS ==
    [numObservers |-> NumObservers,
     learningRate |-> BaseLearningRate,
     timeframe |-> "4h",
     trainingMode |-> FALSE,
     cycleTimeframes |-> FALSE,
     targetEpochs |-> DefaultTargetEpochs]

InitialTradingStats ==
    [totalTrades |-> 0, winningTrades |-> 0, losingTrades |-> 0, totalPnL |-> 0,
     currentPosition |-> Null, positionHistory |-> <<>>]

InitialTrainingState ==
    [currentEpoch |-> 0, totalEpochs |-> 0, epochsCompleted |-> 0,
     timeframeIndex |-> 0, isTraining |-> FALSE, epochMetrics |-> <<>>,
     currentLearningRate |-> DEFAULT_SIMULATION_PARAMS.learningRate]

InitialLastTrade == [action |-> "HOLD", position |-> Null]

\* the part of a TrainingState runSimulationStep reads from its closure
Captured(ts) ==
    [currentEpoch |-> ts.currentEpoch, epochsCompleted |-> ts.epochsCompleted,
     timeframeIndex |-> ts.timeframeIndex, currentLearningRate |-> ts.currentLearningRate]

ControllerInit ==
    /\ params = DEFAULT_SIMULATION_PARAMS
    /\ isRunning = FALSE
    /\ guild = Null
    /\ currentTimeStep = StartIndex
    /\ marketData = Null
    /\ pendingFetches = {DEFAULT_SIMULATION_PARAMS.timeframe}
    /\ tradingStats = InitialTradingStats
    /\ trainingState = InitialTrainingState
    /\ preservedObserversRef = Null
    /\ lastTradeRef = InitialLastTrade
    /\ closureTrainingState = Captured(InitialTrainingState)
    /\ ticks = 0
    /\ userCommands = 0
    /\ reinitialized = FALSE
    /\ lastEvent = [kind |-> "construct"]

controllerVars == <<params, isRunning, guild, currentTimeStep, marketData, pendingFetches,
                    tradingStats, trainingState, preservedObserversRef, lastTradeRef,
                    closureTrainingState, ticks, userCommands, reinitialized, lastEvent>>

----------------------------------------------------------------------------
(* Sequences of executeTradingSignal calls, starting from no position *)

\* market measurements (volatility, trendStrength, phaseConsensus) the calls draw from:
\* trending (stop 4%), ranging without consensus (stop 1.6%), volatile (stop 5%)
MarketProfiles ==
    {[volatility |-> 20, trendStrength |-> 7, phaseConsensus |-> 6],
     [volatility |-> 10, trendStrength |-> 3, phaseConsensus |-> 4],
     [volatility |-> 60, trendStrength |-> 7, phaseConsensus |-> 6]}

ExecPrices == {96, 100, 104, 110}

ExecConfidences == {50, 60, 75}

ExecFeatures ==
    {Null} \cup {Some(EcologyFeatures(75, m.volatility, m.trendStrength, m.phaseConsensus)) :
                    m \in MarketProfiles}

ExecSignals ==
    [action : Actions, confidence : ExecConfidences, ecologyFeatures : ExecFeatures]

InitExec ==
    /\ ControllerInit
    /\ probe = [position |-> Null, calls |-> 0, call |-> Null]

ExecCall ==
    /\ probe.calls < MaxCalls
    /\ \E signal \in ExecSignals, currentPrice \in ExecPrices :
        LET timestamp == probe.calls + 1
            result == executeTradingSignal(signal, probe.position, currentPrice, timestamp)
        IN  probe' = [position |-> result.newPosition,
                      calls |-> probe.calls + 1,
                      call |-> Some([signal |-> signal,
                                     currentPosition |-> probe.position,
                                     currentPrice |-> currentPrice,
                                     timestamp |-> timestamp,
                                     closedPosition |-> result.closedPosition])]
    /\ UNCHANGED controllerVars

SpecExec == InitExec /\ [][ExecCall]_vars

\* C1: after any sequence of executeTradingSignal calls from no position, at
\* most one position is held, and a call opens a position only when none is
\* open after its close check, the action is BUY or SELL and the confidence is
\* at least 0.60; the opened position is LONG for BUY and SHORT for SELL,
\* entered at the call's price and time, with no exit field set.
C1_OpenOnlyFlatNonHoldConfident ==
    /\ Len(probe.position) <= 1
    /\ ~IsNull(probe.call) =>
        LET c == probe.call[1]
            flatAfterCloseCheck == IsNull(c.currentPosition) \/ ~IsNull(c.closedPosition)
            opened == ~IsNull(probe.position) /\ probe.position # c.currentPosition
        IN  /\ (~IsNull(c.closedPosition) =>
                    /\ ~IsNull(c.currentPosition)
                    /\ c.closedPosition[1].entryTime = c.currentPosition[1].entryTime
                    /\ ~IsNull(c.closedPosition[1].exitPrice))
            /\ (~IsNull(probe.position) /\ ~opened => IsNull(c.closedPosition))
            /\ (opened =>
                    /\ flatAfterCloseCheck
                    /\ c.signal.action \in {"BUY", "SELL"}
                    /\ c.signal.confidence >= 60
                    /\ probe.position[1].type =
                          (IF c.signal.action = "BUY" THEN "LONG" ELSE "SHORT")
                    /\ probe.position[1].entryPrice = c.currentPrice
                    /\ probe.position[1].entryTime = c.timestamp
                    /\ IsNull(probe.position[1].exitPrice))
            /\ (flatAfterCloseCheck /\ c.signal.action # "HOLD" /\ c.signal.confidence >= 60
                    => opened)

\* C1 witness: one call closes a SHORT on a BUY signal and opens a LONG
C1_Witness ==
    /\ ~IsNull(probe.call)
    /\ ~IsNull(probe.call[1].closedPosition)
    /\ probe.call[1].closedPosition[1].type = "SHORT"
    /\ ~IsNull(probe.position)
    /\ probe.position[1].type = "LONG"
    /\ probe.position[1].entryTime = probe.call[1].timestamp

\* the stop-loss percent (hundredths of a percent) in force for a signal
StopLossOf(signal) ==
    IF IsNull(signal.ecologyFeatures) THEN 100
    ELSE calculateAdaptiveStopLoss(signal.ecologyFeatures[1].volatilityEstimate,
                                   signal.ecologyFeatures[1].marketRegime)

\* C9: a call closes the open position exactly when its percent P&L at the
\* current price is <= -stopLoss%, or >= takeProfit% (2.5 stopLoss%), or the
\* signal reverses its direction; otherwise nothing is closed and the open
\* position is returned unchanged.
C9_ClosesExactlyOnStopTargetOrReversal ==
    (~IsNull(probe.call) /\ ~IsNull(probe.call[1].currentPosition)) =>
        LET c == probe.call[1]
            p == c.currentPosition[1]
            move == IF p.type = "LONG" THEN c.currentPrice - p.entryPrice
                    ELSE p.entryPrice - c.currentPrice
            stop == StopLossOf(c.signal)
            hitStop == move * 10000 <= -stop * p.entryPrice
            hitTarget == move * 20000 >= 5 * stop * p.entryPrice
            reversed == \/ c.signal.action = "BUY" /\ p.type = "SHORT"
                        \/ c.signal.action = "SELL" /\ p.type = "LONG"
        IN  /\ ~IsNull(c.closedPosition) <=> (hitStop \/ hitTarget \/ reversed)
            /\ IsNull(c.closedPosition) => probe.position = c.currentPosition
            /\ ~IsNull(c.closedPosition) =>
                    /\ c.closedPosition[1].type = p.type
                    /\ c.closedPosition[1].entryPrice = p.entryPrice
                    /\ c.closedPosition[1].exitPrice = Some(c.currentPrice)

\* C9 witness: a HOLD signal closes a LONG exactly at its stop (-4% at a 4% stop)
C9_Witness ==
    /\ ~IsNull(probe.call)
    /\ probe.call[1].signal.action = "HOLD"
    /\ StopLossOf(probe.call[1].signal) = 400
    /\ ~IsNull(probe.call[1].closedPosition)
    /\ probe.call[1].closedPosition[1].type = "LONG"
    /\ probe.call[1].closedPosition[1].entryPrice = 100
    /\ probe.call[1].currentPrice = 96

----------------------------------------------------------------------------
(* Sequences of assignTradingCredit calls on a population *)

\* an observer as assignTradingCredit receives it
CreditObserver(id, proposedAction, proposedSize) ==
    [id |-> id,
     n |-> 100 + id,
     strategyGenes |-> [riskTolerance |-> 5, trendFollowing |-> 5,
                        volatilityPreference |-> 5, holdingBias |-> 0],
     experienceBuffer |-> <<[timestamp |-> 61, action |-> proposedAction,
                             proposedSize |-> proposedSize, outcome |-> 0,
                             wasExecuted |-> FALSE]>>,
     proposedAction |-> proposedAction,
     proposedSize |-> proposedSize,
     tradingReward |-> ZeroReward,
     contributedToTrade |-> FALSE,
     lifetimeTradingPnL |-> 0]

CreditProposals == [action : Actions, size : {5, 10}]

\* a LONG entered at 100 and closed by executeTradingSignal at exitPrice
ClosedLong(exitPrice) ==
    LET buy == [action |-> "BUY", confidence |-> 75, ecologyFeatures |-> Null]
        hold == [action |-> "HOLD", confidence |-> 50, ecologyFeatures |-> Null]
        open == executeTradingSignal(buy, Null, 100, 61).newPosition
    IN  executeTradingSignal(hold, open, exitPrice, 62).closedPosition

\* tradeResult: null, a winning and a losing closed position
CreditResults == {Null, ClosedLong(110), ClosedLong(96)}

InitCredit ==
    /\ ControllerInit
    /\ \E proposals \in [1..NumObservers -> CreditProposals] :
        LET observers == [i \in 1..NumObservers |->
                            CreditObserver(i - 1, proposals[i].action, proposals[i].size)]
        IN  probe = [observers |-> observers, before |-> observers,
                     tradedAction |-> "HOLD", tradeResult |-> Null, calls |-> 0]

CreditCall ==
    /\ probe.calls < MaxCalls
    /\ \E tradedAction \in Actions, tradeResult \in CreditResults :
        probe' = [observers |-> assignTradingCredit(probe.observers, tradedAction, tradeResult),
                  before |-> probe.observers,
                  tradedAction |-> tradedAction,
                  tradeResult |-> tradeResult,
                  calls |-> probe.calls + 1]
    /\ UNCHANGED controllerVars

SpecCredit == InitCredit /\ [][CreditCall]_vars

\* C6 as claimed: after assignTradingCredit the observers with
\* contributedToTrade = true are exactly those whose proposedAction equals the
\* executed action when a position was closed, and none when no position closed.
C6_Original ==
    probe.calls > 0 =>
        \A i \in DOMAIN probe.observers :
            probe.observers[i].contributedToTrade <=>
                (~IsNull(probe.tradeResult)
                 /\ probe.before[i].proposedAction = probe.tradedAction)

\* C6 amended: the observers with contributedToTrade = true are exactly those
\* whose proposedAction equals the executed action when a position was closed
\* and the executed action is BUY or SELL; none when no position closed or the
\* executed action is HOLD.
C6_CreditPartition ==
    probe.calls > 0 =>
        \A i \in DOMAIN probe.observers :
            probe.observers[i].contributedToTrade <=>
                (~IsNull(probe.tradeResult)
                 /\ probe.tradedAction # "HOLD"
                 /\ probe.before[i].proposedAction = probe.tradedAction)

\* C6 witness: a closed position credited under BUY to a BUY proposer and not
\* to a SELL proposer
C6_Witness ==
    /\ probe.calls > 0
    /\ ~IsNull(probe.tradeResult)
    /\ probe.tradedAction = "BUY"
    /\ \E i, j \in DOMAIN probe.observers :
        /\ probe.before[i].proposedAction = "BUY"
        /\ probe.observers[i].contributedToTrade
        /\ probe.before[j].proposedAction = "SELL"
        /\ ~probe.observers[j].contributedToTrade

\* C7: assignTradingCredit adds pnl * proposedSize to lifetimeTradingPnL of the
\* observers whose proposedAction equals a non-HOLD executed action with a
\* closed position, leaves lifetimeTradingPnL of every other observer (and of
\* all when nothing closed or the action is HOLD) unchanged, never changes id,
\* predicted value, genes, experience buffer, proposedAction or proposedSize,
\* and keeps the number and order of observers.
C7_LifetimePnLFrame ==
    probe.calls > 0 =>
        /\ DOMAIN probe.observers = DOMAIN probe.before
        /\ \A i \in DOMAIN probe.observers :
            LET b == probe.before[i]
                o == probe.observers[i]
                credited == /\ ~IsNull(probe.tradeResult)
                            /\ probe.tradedAction # "HOLD"
                            /\ b.proposedAction = probe.tradedAction
            IN  /\ o.id = b.id
                /\ o.n = b.n
                /\ o.strategyGenes = b.strategyGenes
                /\ o.experienceBuffer = b.experienceBuffer
                /\ o.proposedAction = b.proposedAction
                /\ o.proposedSize = b.proposedSize
                /\ o.lifetimeTradingPnL =
                      IF credited
                      THEN b.lifetimeTradingPnL + probe.tradeResult[1].pnl[1] * b.proposedSize
                      ELSE b.lifetimeTradingPnL

\* C7 witness: a second losing trade credited to an observer that already
\* carries a lifetime P&L, next to an observer that proposed another action
C7_Witness ==
    /\ probe.calls > 1
    /\ ~IsNull(probe.tradeResult)
    /\ probe.tradeResult[1].pnl[1] < 0
    /\ \E i, j \in DOMAIN probe.observers :
        /\ probe.before[i].lifetimeTradingPnL > 0
        /\ probe.observers[i].lifetimeTradingPnL < probe.before[i].lifetimeTradingPnL
        /\ probe.before[j].proposedAction # probe.tradedAction
        /\ probe.observers[j].lifetimeTradingPnL = probe.before[j].lifetimeTradingPnL

----------------------------------------------------------------------------
(* The controller (App.tsx): market data, observers, one simulation step *)

\* Candle series a fetch can return: the closes from index StartIndex + 1 on
\* (repeating), with the volatility, trend strength and phase consensus that
\* extractEcologyFeatures measures during a pass over them (kept constant over
\* the pass), and marketData.length. The first series moves by whole stop and target distances, the
\* second is flat.
MarketSeries ==
    {[closes |-> <<100, 100, 110, 104, 96, 100>>,
      volatility |-> 20, trendStrength |-> 7, phaseConsensus |-> 6, length |-> DataLength],
     [closes |-> <<100, 100, 100, 100, 100, 100>>,
      volatility |-> 10, trendStrength |-> 3, phaseConsensus |-> 6, length |-> DataLength]}

\* marketData[index].close, for index > StartIndex
Close(data, index) ==
    data.series.closes[((index - StartIndex - 1) % Len(data.series.closes)) + 1]

ActionOrder == <<"BUY", "SELL", "HOLD">>

\* the action and size observer id proposes under a choice of the random draws
ProposedAction(choice, id) == ActionOrder[((id + choice) % 3) + 1]

ProposedSize(choice, id) == IF (id + choice) % 2 = 0 THEN 10 ELSE 5

ProposalChoices == {0, 1}

\* Array.from({ length: params.numObservers }, ...) of initializeSimulation
FreshObservers(numObservers, choice) ==
    [i \in 1..numObservers |->
        [id |-> i - 1,
         proposedAction |-> ProposedAction(choice, i - 1),
         proposedSize |-> ProposedSize(choice, i - 1),
         tradingReward |-> ZeroReward,
         contributedToTrade |-> FALSE,
         lifetimeTradingPnL |-> 0,
         experienceBuffer |-> <<>>]]

\* variant of InitialGuild: the observers are always created anew
InitialGuildAlwaysFresh(p, preserved, choice) ==
    Some([observers |-> FreshObservers(p.numObservers, choice),
          eliteReward |-> -100])

\* variant of InitialGuild: the guild starts with a confident elite
InitialGuildConfident(p, preserved, choice) ==
    Some([observers |-> IF ~IsNull(preserved) THEN preserved[1]
                        ELSE FreshObservers(p.numObservers, choice),
          eliteReward |-> 75])

\* initializeSimulation with data present: the guild it sets
InitialGuild(p, preserved, choice) ==
    Some([observers |-> IF ~IsNull(preserved) THEN preserved[1]
                        ELSE FreshObservers(p.numObservers, choice),
          eliteReward |-> -100])

\* initializeSimulation: trading stats are reset unless observers are preserved
\* in training mode
StatsAfterInitialize(p, preserved, stats) ==
    IF IsNull(preserved) \/ ~p.trainingMode THEN InitialTradingStats ELSE stats

\* initializeSimulation() run under params p with the ref's content preserved
initializeSimulation(p, preserved) ==
    /\ currentTimeStep' = StartIndex
    /\ \E choice \in ProposalChoices : guild' = InitialGuild(p, preserved, choice)
    /\ tradingStats' = StatsAfterInitialize(p, preserved, tradingStats)
    /\ reinitialized' = TRUE

\* the values one simulation step draws from the observers' random evolution
\* (the elite's reward and direction, the next proposals) and the moment the
\* nested setTradingStats updater runs: inside setGuild's updater (eager) or
\* after it returned
StepInputs ==
    [eliteReward : {50, 75}, direction : {"UP", "DOWN"},
     proposals : ProposalChoices, eager : BOOLEAN]

\* inputs of a run that trades: a confident elite in either direction, or an
\* unconfident one
TradeInputs == {in \in StepInputs : in.eliteReward = 75 \/ in.direction = "UP"}

\* inputs of a run with one confident elite and the nested updater deferred
QuietInputs ==
    {in \in StepInputs : in.eliteReward = 75 /\ in.direction = "UP"
                          /\ in.proposals = 0 /\ ~in.eager}

\* evolvedObservers.map(obs => recordExperience(obs, experience)): the step
\* records one experience for every observer
recordExperiences(evolvedObservers, nextStep, tradingOutcome, executedAction) ==
    [i \in DOMAIN evolvedObservers |->
        recordExperience(evolvedObservers[i],
            [timestamp |-> nextStep,
             action |-> evolvedObservers[i].proposedAction,
             proposedSize |-> evolvedObservers[i].proposedSize,
             outcome |-> IF IsNull(tradingOutcome) THEN 0 ELSE tradingOutcome[1],
             wasExecuted |-> /\ evolvedObservers[i].proposedAction = executedAction
                             /\ ~IsNull(tradingOutcome)])]

\* const updatedHistory = closedPosition ? [...positionHistory, closedPosition] : positionHistory
updatedHistory(positionHistory, closedPosition) ==
    IF ~IsNull(closedPosition) THEN Append(positionHistory, closedPosition[1])
    ELSE positionHistory

\* variant of atEndOfSeries: the last candle is stepped onto as well
atEndOfSeriesPastLastCandle(nextStep, length) == nextStep >= length

\* if (nextStep >= marketData.length - 1)
atEndOfSeries(nextStep, length) == nextStep >= length - 1

\* the candle indices one step reads: marketData[nextStep], marketData[nextStep - 1]
\* and marketData.slice(Math.max(0, nextStep - 20), nextStep)
candlesRead(nextStep) ==
    {nextStep, nextStep - 1} \cup (Max(0, nextStep - 20)..(nextStep - 1))

\* The body of runSimulationStep below the end-of-data test (App.tsx:422-705)
SimStep(in) ==
    LET data == marketData[1]
        nextStep == currentTimeStep + 1
        actualNextClose == Close(data, nextStep)
        prevGuild == guild[1]
        evolvedObservers ==
            [i \in DOMAIN prevGuild.observers |->
                [prevGuild.observers[i] EXCEPT
                    !.proposedAction = ProposedAction(in.proposals, prevGuild.observers[i].id),
                    !.proposedSize = ProposedSize(in.proposals, prevGuild.observers[i].id)]]
        ecologyFeatures == EcologyFeatures(in.eliteReward, data.series.volatility,
                                           data.series.trendStrength,
                                           data.series.phaseConsensus)
        signal == generateTradingSignal(prevGuild.eliteReward, in.direction,
                                        Some(ecologyFeatures))
        result == executeTradingSignal(signal, tradingStats.currentPosition,
                                       actualNextClose, nextStep)
        closedPosition == result.closedPosition
        \* the locals of setGuild's updater when the experiences are recorded
        tradingOutcome ==
            IF in.eager /\ ~IsNull(closedPosition) /\ ~IsNull(closedPosition[1].pnl)
            THEN closedPosition[1].pnl ELSE Null
        executedAction == IF in.eager THEN signal.action ELSE "HOLD"
        tradeRecorded == [action |-> signal.action, position |-> closedPosition]
        \* lastTradeRef.current when finalObservers is computed
        refAtCredit ==
            IF in.eager /\ ~IsNull(closedPosition) THEN tradeRecorded ELSE lastTradeRef
        observersWithExperience ==
            recordExperiences(evolvedObservers, nextStep, tradingOutcome, executedAction)
        finalObservers ==
            IF ~IsNull(refAtCredit.position)
            THEN assignTradingCredit(observersWithExperience, refAtCredit.action,
                                     refAtCredit.position)
            ELSE observersWithExperience
        refAfterCredit ==
            IF ~IsNull(refAtCredit.position) THEN InitialLastTrade ELSE refAtCredit
    IN  /\ ~atEndOfSeries(nextStep, data.series.length)
        /\ ~IsNull(guild)
        /\ currentTimeStep' = nextStep
        /\ guild' = Some([observers |-> finalObservers, eliteReward |-> in.eliteReward])
        /\ tradingStats' = calculateTradingStats(result.newPosition,
                               updatedHistory(tradingStats.positionHistory, closedPosition))
        /\ lastTradeRef' =
              IF ~in.eager /\ ~IsNull(closedPosition) THEN tradeRecorded ELSE refAfterCredit
        /\ lastEvent' = [kind |-> "step",
                         signal |-> signal,
                         priorPosition |-> tradingStats.currentPosition,
                         closedPosition |-> closedPosition,
                         credit |-> refAtCredit]
        /\ UNCHANGED <<params, isRunning, marketData, pendingFetches, trainingState,
                       preservedObserversRef, closureTrainingState, reinitialized>>

----------------------------------------------------------------------------
(* End of the data series and training epochs (App.tsx:321-420) *)

\* calculateEpochMetrics: the epoch label, the timeframe and the trading
\* counters; winRate is winningTrades / totalTrades, and no validation field
\* is ever set. avgFitness and diversityScore are not represented.
\* calculateEpochMetrics(...): the record has neither validationWinRate nor
\* validationPnL (both undefined, here Null)
calculateEpochMetrics(epoch, timeframe, totalTrades, winningTrades, losingTrades, totalPnL) ==
    [epoch |-> epoch,
     timeframe |-> timeframe,
     totalTrades |-> totalTrades,
     winningTrades |-> winningTrades,
     totalPnL |-> totalPnL,
     validationWinRate |-> Null,
     validationPnL |-> Null]

\* Math.max(...values), values non-empty
RECURSIVE MaxOf(_)
MaxOf(values) ==
    IF Len(values) = 1 THEN values[1] ELSE Max(Head(values), MaxOf(Tail(values)))

\* variant of shouldStopEarly: the best record itself counts as an epoch
\* without improvement
shouldStopEarlyCountingBest(epochMetrics, patience, minEpochs) ==
    LET validationMetrics == SelectSeq(epochMetrics, LAMBDA m : ~IsNull(m.validationWinRate))
        rates == [i \in DOMAIN validationMetrics |-> OrElse(validationMetrics[i].validationWinRate, 0)]
        bestValWinRate == MaxOf(rates)
        bestEpochIndex == CHOOSE i \in DOMAIN validationMetrics :
            /\ validationMetrics[i].validationWinRate = Some(bestValWinRate)
            /\ \A j \in 1..(i - 1) : validationMetrics[j].validationWinRate # Some(bestValWinRate)
    IN  IF Len(epochMetrics) < minEpochs THEN FALSE
        ELSE IF Len(validationMetrics) < minEpochs THEN FALSE
        ELSE Len(validationMetrics) - bestEpochIndex + 1 >= patience

\* shouldStopEarly(epochMetrics, patience, minEpochs)
shouldStopEarly(epochMetrics, patience, minEpochs) ==
    LET validationMetrics ==
            SelectSeq(epochMetrics, LAMBDA m : ~IsNull(m.validationWinRate))
        rates == [i \in DOMAIN validationMetrics |->
                    OrElse(validationMetrics[i].validationWinRate, 0)]
        bestValWinRate == MaxOf(rates)
        bestEpochIndex ==
            CHOOSE i \in DOMAIN validationMetrics :
                /\ validationMetrics[i].validationWinRate = Some(bestValWinRate)
                /\ \A j \in 1..(i - 1) :
                      validationMetrics[j].validationWinRate # Some(bestValWinRate)
        epochsSinceBest == Len(validationMetrics) - bestEpochIndex
    IN  IF Len(epochMetrics) < minEpochs THEN FALSE
        ELSE IF Len(validationMetrics) < minEpochs THEN FALSE
        ELSE epochsSinceBest >= patience

\* calculateLearningRate(epoch, totalEpochs, initialLR), kept symbolically
calculateLearningRate(epoch, totalEpochs, initialLR) ==
    Append(initialLR, <<epoch, totalEpochs>>)

\* variant of maintainDiversity: the last observer is dropped
maintainDiversityDroppingLast(observers) == SubSeq(observers, 1, Len(observers) - 1)

\* maintainDiversity changes strategy genes only; the fields of an observer
\* kept here (id, proposal, credit, experience buffer) pass through
maintainDiversity(observers) == [i \in DOMAIN observers |-> observers[i]]

\* What follows a render in which params became p: the fetch effect when the
\* timeframe changed, runSimulationStep re-created over the trainingState ts
\* of that render, and the initialisation effect
AfterSetParams(p, preserved, ts) ==
    /\ params' = p
    /\ pendingFetches' = IF p.timeframe # params.timeframe
                         THEN pendingFetches \cup {p.timeframe}
                         ELSE pendingFetches
    /\ closureTrainingState' = Captured(ts)
    /\ IF ~IsNull(marketData)
       THEN initializeSimulation(p, preserved)
       ELSE UNCHANGED <<currentTimeStep, guild, tradingStats, reinitialized>>

\* the interval is armed (App.tsx:709-722) and one more tick is within the bound
TickEnabled == isRunning /\ ~IsNull(marketData) /\ ticks < MaxTicks

\* a tick before the end of the data: one simulation step
Step(inputs) ==
    /\ TickEnabled
    /\ \E in \in inputs : SimStep(in)
    /\ ticks' = ticks + 1
    /\ UNCHANGED <<userCommands, probe>>

\* a tick at the end of the data in training mode, while the epochsCompleted
\* that runSimulationStep captured is below the target (App.tsx:324-409)
EpochEnd ==
    LET c == closureTrainingState
        prev == trainingState
        epochMetrics == calculateEpochMetrics(c.currentEpoch, params.timeframe,
                            tradingStats.totalTrades, tradingStats.winningTrades,
                            tradingStats.losingTrades, tradingStats.totalPnL)
        newMetrics == Append(prev.epochMetrics, epochMetrics)
        stopEarly == shouldStopEarly(newMetrics, Patience, MinEpochs)
        nextLR == calculateLearningRate(prev.currentEpoch + 1, params.targetEpochs,
                                        params.learningRate)
        nextEpochsCompleted == prev.epochsCompleted + 1
        nextTimeframeIndex ==
            IF params.cycleTimeframes
            THEN (prev.timeframeIndex + 1) % Len(TRAINING_TIMEFRAMES)
            ELSE prev.timeframeIndex
        continues == ~stopEarly /\ nextEpochsCompleted < params.targetEpochs
        newTrainingState ==
            IF continues
            THEN [prev EXCEPT !.currentEpoch = nextEpochsCompleted,
                              !.epochsCompleted = nextEpochsCompleted,
                              !.timeframeIndex = nextTimeframeIndex,
                              !.epochMetrics = newMetrics,
                              !.currentLearningRate = nextLR]
            ELSE [prev EXCEPT !.isTraining = FALSE, !.epochMetrics = newMetrics]
        newPreserved ==
            IF stopEarly THEN preservedObserversRef
            ELSE Some(maintainDiversity(guild[1].observers))
        cycles == params.cycleTimeframes /\ c.epochsCompleted + 1 < params.targetEpochs
        cycledParams ==
            [params EXCEPT
                !.timeframe = TRAINING_TIMEFRAMES[
                    ((c.timeframeIndex + 1) % Len(TRAINING_TIMEFRAMES)) + 1],
                !.learningRate = c.currentLearningRate]
    IN  /\ TickEnabled
        /\ atEndOfSeries(currentTimeStep + 1, marketData[1].series.length)
        /\ params.trainingMode
        /\ c.epochsCompleted < params.targetEpochs
        /\ ~IsNull(guild)
        /\ trainingState' = newTrainingState
        /\ preservedObserversRef' = newPreserved
        /\ isRunning' = continues
        /\ IF cycles
           THEN AfterSetParams(cycledParams, newPreserved, newTrainingState)
           ELSE /\ reinitialized' = FALSE
                /\ UNCHANGED <<params, pendingFetches, closureTrainingState,
                               currentTimeStep, guild, tradingStats>>
        /\ lastEvent' = [kind |-> "epochEnd",
                         metrics |-> epochMetrics,
                         training |-> prev.isTraining,
                         atStep |-> currentTimeStep,
                         freshPass |-> reinitialized,
                         complete |-> ~continues]
        /\ ticks' = ticks + 1
        /\ UNCHANGED <<marketData, lastTradeRef, userCommands, probe>>

\* a tick at the end of the data otherwise (App.tsx:410-419)
EndOfData ==
    /\ TickEnabled
    /\ atEndOfSeries(currentTimeStep + 1, marketData[1].series.length)
    /\ ~(params.trainingMode /\ closureTrainingState.epochsCompleted < params.targetEpochs)
    /\ isRunning' = FALSE
    /\ trainingState' = IF params.trainingMode
                        THEN [trainingState EXCEPT !.isTraining = FALSE]
                        ELSE trainingState
    /\ lastEvent' = [kind |-> "endOfData"]
    /\ ticks' = ticks + 1
    /\ UNCHANGED <<params, guild, currentTimeStep, marketData, pendingFetches,
                   tradingStats, preservedObserversRef, lastTradeRef,
                   closureTrainingState, userCommands, reinitialized, probe>>

----------------------------------------------------------------------------
(* Data arrival, the auto-restart effect and the user's commands *)

\* a fetchMarketData promise resolves (App.tsx:109-110); the initialisation
\* effect follows (App.tsx:207-211) and runSimulationStep is re-created
MarketDataArrives(seriesChoices) ==
    /\ \E timeframe \in pendingFetches, series \in seriesChoices :
        /\ marketData' = Some([timeframe |-> timeframe, series |-> series])
        /\ pendingFetches' = pendingFetches \ {timeframe}
    /\ initializeSimulation(params, preservedObserversRef)
    /\ closureTrainingState' = Captured(trainingState)
    /\ lastEvent' = [kind |-> "data"]
    /\ UNCHANGED <<params, isRunning, trainingState, preservedObserversRef, lastTradeRef,
                   ticks, userCommands, probe>>

\* the timer of the auto-restart effect fires (App.tsx:214-227)
AutoRestart ==
    /\ params.trainingMode
    /\ trainingState.epochsCompleted < params.targetEpochs
    /\ ~IsNull(marketData)
    /\ trainingState.currentEpoch > 0
    /\ ~isRunning
    /\ initializeSimulation(params, preservedObserversRef)
    /\ isRunning' = TRUE
    /\ lastEvent' = [kind |-> "autoRestart"]
    /\ UNCHANGED <<params, marketData, pendingFetches, trainingState, preservedObserversRef,
                   lastTradeRef, closureTrainingState, ticks, userCommands, probe>>

\* what the user sets in the control panel before a command: plain simulation,
\* or training with or without timeframe cycling for some number of epochs
UserChoices ==
    {[trainingMode |-> FALSE, cycleTimeframes |-> FALSE, targetEpochs |-> DefaultTargetEpochs]}
    \cup [trainingMode : {TRUE}, cycleTimeframes : BOOLEAN, targetEpochs : 1..MaxTargetEpochs]

\* the panel's localParams under a choice
LocalParams(choice) ==
    [params EXCEPT !.trainingMode = choice.trainingMode,
                   !.cycleTimeframes = choice.cycleTimeframes,
                   !.targetEpochs = choice.targetEpochs]

\* handleApplyChanges (ControlPanel.tsx:52-54)
ApplyChanges ==
    /\ userCommands < MaxUserCommands
    /\ \E choice \in UserChoices :
        AfterSetParams(LocalParams(choice), preservedObserversRef, trainingState)
    /\ userCommands' = userCommands + 1
    /\ lastEvent' = [kind |-> "apply"]
    /\ UNCHANGED <<isRunning, marketData, trainingState, preservedObserversRef,
                   lastTradeRef, ticks, probe>>

\* handleStartTraining (ControlPanel.tsx:61-66): handleApplyChanges, then after
\* 100 ms the startTraining of the render in which the button was pressed
\* (App.tsx:289-305), which reads the params from before the change
StartTrainingClick ==
    LET started == params.trainingMode
        startedState ==
            [currentEpoch |-> 0, totalEpochs |-> params.targetEpochs,
             epochsCompleted |-> 0, timeframeIndex |-> 0, isTraining |-> TRUE,
             epochMetrics |-> <<>>, currentLearningRate |-> params.learningRate]
    IN  /\ userCommands < MaxUserCommands
        /\ ~trainingState.isTraining
        /\ \E choice \in UserChoices :
            /\ choice.trainingMode
            /\ AfterSetParams(LocalParams(choice), preservedObserversRef, trainingState)
        /\ trainingState' = IF started THEN startedState ELSE trainingState
        /\ preservedObserversRef' = IF started THEN Null ELSE preservedObserversRef
        /\ isRunning' = IF started THEN TRUE ELSE isRunning
        /\ userCommands' = userCommands + 1
        /\ lastEvent' = [kind |-> "startTraining", started |-> started]
        /\ UNCHANGED <<marketData, lastTradeRef, ticks, probe>>

\* the Start / Pause button (ControlPanel.tsx:297)
ToggleRunning ==
    /\ userCommands < MaxUserCommands
    /\ isRunning' = ~isRunning
    /\ userCommands' = userCommands + 1
    /\ lastEvent' = [kind |-> "toggle"]
    /\ UNCHANGED <<params, guild, currentTimeStep, marketData, pendingFetches, tradingStats,
                   trainingState, preservedObserversRef, lastTradeRef, closureTrainingState,
                   ticks, reinitialized, probe>>

Init ==
    /\ ControllerInit
    /\ probe = Null

\* the series a fetch returns in the runs of the whole controller
QuietSeries == {series \in MarketSeries : series.volatility = 20}

Next ==
    \/ MarketDataArrives(QuietSeries)
    \/ Step(QuietInputs)
    \/ EpochEnd
    \/ EndOfData
    \/ AutoRestart
    \/ ApplyChanges
    \/ StartTrainingClick
    \/ ToggleRunning

\* The controller with the user's commands and training
Spec == Init /\ [][Next]_vars

NextTrade ==
    \/ MarketDataArrives(MarketSeries)
    \/ Step(TradeInputs)
    \/ EndOfData
    \/ ToggleRunning

\* Plain simulation runs over every market series and step input
SpecTrade == Init /\ [][NextTrade]_vars

----------------------------------------------------------------------------
(* Properties of training runs *)

\* training was started and has ended: nothing runs and isTraining is off
TrainingStopped ==
    /\ params.trainingMode
    /\ trainingState.totalEpochs > 0
    /\ trainingState.epochMetrics # <<>>
    /\ ~trainingState.isTraining
    /\ ~isRunning

\* C2: once a training run has ended in the Stopped state (isRunning = false,
\* isTraining = false), the controller stays there until the user issues a
\* command: no further simulation step or tick is taken, the auto-restart
\* effect does not re-initialise, and no further EpochMetrics is appended.
C2_StoppedUntilUserCommand ==
    [][(TrainingStopped /\ userCommands' = userCommands) =>
            /\ ~isRunning'
            /\ ~trainingState'.isTraining
            /\ trainingState'.epochMetrics = trainingState.epochMetrics
            /\ ticks' = ticks
            /\ lastEvent'.kind # "autoRestart"]_vars

\* C3: every end-of-epoch processing of a training run (every EpochMetrics
\* append while isTraining) closes a full pass: the simulation was
\* re-initialised at step 60 since the previous append and has advanced to
\* the last step of the data; so end-of-epoch processing happens once per
\* pass, with or without timeframe cycling.
C3_EpochEndClosesFullPass ==
    (lastEvent.kind = "epochEnd" /\ lastEvent.training) =>
        /\ lastEvent.freshPass
        /\ lastEvent.atStep = DataLength - 2

----------------------------------------------------------------------------
(* Properties of simulation steps *)

Last(seq) == seq[Len(seq)]

\* C4: in a step, the outcome and wasExecuted of the experience each observer
\* records, and the trade that credit is assigned from, are those of the
\* signal executed and the position closed in that same step, whenever the
\* nested updater runs.
C4_StepUsesItsOwnTrade ==
    lastEvent.kind = "step" =>
        LET closed == lastEvent.closedPosition
            action == lastEvent.signal.action
        IN  /\ \A i \in DOMAIN guild[1].observers :
                LET e == Last(guild[1].observers[i].experienceBuffer)
                IN  /\ e.outcome = (IF IsNull(closed) THEN 0 ELSE OrElse(closed[1].pnl, 0))
                    /\ e.wasExecuted = (e.action = action /\ ~IsNull(closed))
            /\ ~IsNull(closed) => lastEvent.credit.position = closed
            /\ ~IsNull(lastEvent.credit.position) =>
                    lastEvent.credit = [action |-> action, position |-> closed]

\* C5: after every step in which no position was closed, or whose executed
\* action is HOLD, every observer has tradingReward = 0 and
\* contributedToTrade = false.
C5_NoTradeNoCredit ==
    (lastEvent.kind = "step"
        /\ (IsNull(lastEvent.closedPosition) \/ lastEvent.signal.action = "HOLD")) =>
        \A i \in DOMAIN guild[1].observers :
            /\ guild[1].observers[i].tradingReward = ZeroReward
            /\ ~guild[1].observers[i].contributedToTrade

\* C8: every position in positionHistory has exitPrice, exitTime, pnl and
\* pnlPercent set, and currentPosition, when not null, has none of them set.
C8_ExitFieldsOnlyOnClosed ==
    /\ \A k \in DOMAIN tradingStats.positionHistory :
        LET p == tradingStats.positionHistory[k]
        IN  /\ ~IsNull(p.exitPrice)
            /\ ~IsNull(p.exitTime)
            /\ ~IsNull(p.pnl)
            /\ ~IsNull(p.pnlPercent)
    /\ ~IsNull(tradingStats.currentPosition) =>
        LET p == tradingStats.currentPosition[1]
        IN  /\ IsNull(p.exitPrice)
            /\ IsNull(p.exitTime)
            /\ IsNull(p.pnl)
            /\ IsNull(p.pnlPercent)

\* C8 witness: closed positions in the history next to an open position
C8_Witness ==
    /\ Len(tradingStats.positionHistory) >= 2
    /\ ~IsNull(tradingStats.currentPosition)

\* C10: a step makes at most one open -> closed transition, of the position
\* that was open, and at most one closed -> open transition; a close followed
\* by an open in the same step is allowed.
C10_OneCloseOneOpenPerStep ==
    [][lastEvent'.kind = "step" =>
        LET prior == tradingStats.currentPosition
            now == tradingStats'.currentPosition
            history == tradingStats.positionHistory
            newHistory == tradingStats'.positionHistory
            openedNow == /\ ~IsNull(now)
                         /\ now[1].entryTime = currentTimeStep'
                         /\ IsNull(now[1].exitPrice)
            closedPrior == /\ ~IsNull(prior)
                           /\ Len(newHistory) = Len(history) + 1
                           /\ SubSeq(newHistory, 1, Len(history)) = history
                           /\ Last(newHistory).type = prior[1].type
                           /\ Last(newHistory).entryTime = prior[1].entryTime
                           /\ Last(newHistory).exitTime = Some(currentTimeStep')
        IN  \/ newHistory = history /\ now = prior
            \/ newHistory = history /\ IsNull(prior) /\ openedNow
            \/ closedPrior /\ IsNull(now)
            \/ closedPrior /\ openedNow]_vars

\* C10 witness: a step that closed a LONG and opened a SHORT
C10_Witness ==
    /\ lastEvent.kind = "step"
    /\ ~IsNull(lastEvent.closedPosition)
    /\ lastEvent.closedPosition[1].type = "LONG"
    /\ ~IsNull(tradingStats.currentPosition)
    /\ tradingStats.currentPosition[1].type = "SHORT"
    /\ tradingStats.currentPosition[1].entryTime = currentTimeStep

----------------------------------------------------------------------------
(* Sequences of generateTradingSignal calls *)

\* directionAccuracy values (percent) around the two thresholds
SignalAccuracies == {-100, 0, 59, 60, 69, 70, 100}

\* ecology features around the regime and consensus boundaries, or none
SignalFeatures ==
    {Null} \cup {Some(EcologyFeatures(75, volatility, trendStrength, phaseConsensus)) :
                    volatility \in {10, 50, 51}, trendStrength \in {3, 6, 7},
                    phaseConsensus \in {4, 5, 6}}

InitSignal ==
    /\ ControllerInit
    /\ probe = [calls |-> 0, call |-> Null]

SignalCall ==
    /\ probe.calls < MaxCalls
    /\ \E directionAccuracy \in SignalAccuracies, lastPrediction \in {"UP", "DOWN"},
          ecologyFeatures \in SignalFeatures :
        probe' = [calls |-> probe.calls + 1,
                  call |-> Some([directionAccuracy |-> directionAccuracy,
                                 lastPrediction |-> lastPrediction,
                                 ecologyFeatures |-> ecologyFeatures,
                                 signal |-> generateTradingSignal(directionAccuracy,
                                                lastPrediction, ecologyFeatures)])]
    /\ UNCHANGED controllerVars

SpecSignal == InitSignal /\ [][SignalCall]_vars

\* C11: with ecology features, generateTradingSignal returns HOLD whenever the
\* regime is ranging and phaseConsensus < 0.5, whatever the confidence;
\* otherwise, with confidence = directionAccuracy / 100 and threshold 0.60
\* (0.70 when volatile), it returns BUY when confidence >= threshold and the
\* last direction is UP, SELL when it is DOWN, and HOLD below the threshold.
C11_SignalDecision ==
    (~IsNull(probe.call) /\ ~IsNull(probe.call[1].ecologyFeatures)) =>
        LET c == probe.call[1]
            f == c.ecologyFeatures[1]
            threshold == IF f.marketRegime = "volatile" THEN 70 ELSE 60
            expected ==
                IF f.marketRegime = "ranging" /\ f.phaseConsensus < 5 THEN "HOLD"
                ELSE IF c.directionAccuracy < threshold THEN "HOLD"
                ELSE IF c.lastPrediction = "UP" THEN "BUY"
                ELSE "SELL"
        IN  /\ c.signal.action = expected
            /\ c.signal.confidence = c.directionAccuracy

\* C11 witness: full confidence in a ranging market without consensus gives HOLD
C11_Witness ==
    /\ ~IsNull(probe.call)
    /\ ~IsNull(probe.call[1].ecologyFeatures)
    /\ probe.call[1].ecologyFeatures[1].marketRegime = "ranging"
    /\ probe.call[1].ecologyFeatures[1].phaseConsensus < 5
    /\ probe.call[1].directionAccuracy = 100
    /\ probe.call[1].signal.action = "HOLD"

-----------------------------------------------------------------------------
(* Fitness and elite selection (evolutionaryLearningService).  In this part
   amounts of money are whole dollars, reward is in percent and a fitness
   is in units of 0.00001; the populations below keep every division
   exact. *)

Clamp(x, lo, hi) == Max(lo, Min(hi, x))

RECURSIVE SumSeq(_)
SumSeq(values) ==
    IF values = <<>> THEN 0 ELSE values[1] + SumSeq(Tail(values))

\* square root of a perfect square
Sqrt(x) == CHOOSE q \in 0..x : q * q = x

\* calculateFitness(observer): 30% prediction, 50% recent trading, 20% lifetime
calculateFitness(observer) ==
    LET predictionScore == 300 * observer.reward
        executedExperiences == SelectSeq(observer.experienceBuffer, LAMBDA exp : exp.wasExecuted)
        count == Len(executedExperiences)
        outcomes == [i \in DOMAIN executedExperiences |-> executedExperiences[i].outcome]
        total == SumSeq(outcomes)
        wins == Len(SelectSeq(executedExperiences, LAMBDA exp : exp.outcome > 0))
        \* count * count * variance
        spread == count * SumSeq([i \in DOMAIN outcomes |-> outcomes[i] * outcomes[i]]) - total * total
        consistency == IF spread > 0 THEN Min(7500, (7500 * total) \div Sqrt(spread)) ELSE 0
        tradingScore ==
            IF count > 0
            THEN Clamp(25000 + (200 * total) \div count
                         + ((15000 * wins) \div count - 7500) + consistency, 0, 50000)
            ELSE 25000
        lifetimeScore == 10 * Clamp(1000 + observer.lifetimeTradingPnL, 0, 2000)
    IN  predictionScore + tradingScore + lifetimeScore

TopN == 3

\* variant of the comparator: ascending fitness
compareFitnessAscending(a, b) == a.fitness - b.fitness

\* the comparator of the sort: descending fitness
compareFitness(a, b) == b.fitness - a.fitness

\* Array.prototype.sort is stable: elements that compare equal keep their
\* array order.  Position of element i in the sorted array, from 1.
sortedPosition(array, i) ==
    1 + Cardinality({j \in DOMAIN array :
            \/ compareFitness(array[j], array[i]) < 0
            \/ compareFitness(array[j], array[i]) = 0 /\ j < i})

\* selectEliteEnsemble(observers, topN)
selectEliteEnsemble(observers, topN) ==
    LET observersWithFitness ==
            [i \in DOMAIN observers |->
                [observers[i] EXCEPT !.fitness = calculateFitness(observers[i])]]
        sorted == [k \in DOMAIN observersWithFitness |->
                    observersWithFitness[CHOOSE i \in DOMAIN observersWithFitness :
                        sortedPosition(observersWithFitness, i) = k]]
    IN  SubSeq(sorted, 1, Min(topN, Len(sorted)))

(* Populations handed to selectEliteEnsemble: the step engine passes
   guild.observers, which holds the observers in id order when the controller
   created them and in the order of the checkpoint file when they were
   imported (handleImportModel keeps checkpoint.observers as it is). *)
MaxPopulation == 4

Experience(outcome, wasExecuted) ==
    [action |-> "BUY", proposedSize |-> 5, outcome |-> outcome, wasExecuted |-> wasExecuted]

FitnessProfiles ==
    { [reward |-> 50, experienceBuffer |-> <<>>, lifetimeTradingPnL |-> 0],
      [reward |-> 80, experienceBuffer |-> <<Experience(0, FALSE)>>, lifetimeTradingPnL |-> 0],
      [reward |-> 50, experienceBuffer |-> <<Experience(20, TRUE), Experience(10, TRUE)>>,
       lifetimeTradingPnL |-> 200] }

EliteObserver(id, profile) ==
    [id |-> id, reward |-> profile.reward, experienceBuffer |-> profile.experienceBuffer,
     lifetimeTradingPnL |-> profile.lifetimeTradingPnL, fitness |-> 50000]

\* the populations of n observers: every order of the ids 0..n-1, every
\* assignment of the profiles
ElitePopulations(n) ==
    IF n = 0 THEN {<<>>}
    ELSE {[i \in 1..n |-> EliteObserver(order[i] - 1, profiles[i])] :
            order \in Permutations(1..n), profiles \in [1..n -> FitnessProfiles]}

InitElite ==
    /\ ControllerInit
    /\ \E n \in 0..MaxPopulation : \E observers \in ElitePopulations(n) :
        probe = [calls |-> 0, observers |-> observers, ensemble |-> Null]

EliteCall ==
    /\ probe.calls < MaxCalls
    /\ probe' = [probe EXCEPT !.calls = @ + 1,
                              !.ensemble = Some(selectEliteEnsemble(probe.observers, TopN))]
    /\ UNCHANGED controllerVars

SpecElite == InitElite /\ [][EliteCall]_vars

\* C12: selectEliteEnsemble returns exactly min(3, population size) observers,
\* each of them a member of the population it was given, in order of
\* non-increasing fitness, and no observer left out has a strictly greater
\* fitness than one that was taken.
C12_EliteEnsembleIsTopThree ==
    ~IsNull(probe.ensemble) =>
        LET observers == probe.observers
            ensemble == probe.ensemble[1]
            taken == {ensemble[k].id : k \in DOMAIN ensemble}
        IN  /\ Len(ensemble) = Min(3, Len(observers))
            /\ Cardinality(taken) = Len(ensemble)
            /\ \A k \in DOMAIN ensemble : \E i \in DOMAIN observers :
                /\ ensemble[k] = [observers[i] EXCEPT !.fitness = calculateFitness(observers[i])]
            /\ \A k \in DOMAIN ensemble : \A l \in DOMAIN ensemble :
                k < l => ensemble[k].fitness >= ensemble[l].fitness
            /\ \A i \in DOMAIN observers : \A k \in DOMAIN ensemble :
                observers[i].id \notin taken =>
                    calculateFitness(observers[i]) <= ensemble[k].fitness

\* an ensemble cut out of a larger population whose fitnesses differ
C12_Witness ==
    /\ ~IsNull(probe.ensemble)
    /\ Len(probe.observers) > 3
    /\ Len(probe.ensemble[1]) = 3
    /\ probe.ensemble[1][1].fitness > probe.ensemble[1][3].fitness
    /\ \E i \in DOMAIN probe.observers :
        /\ \A k \in DOMAIN probe.ensemble[1] : probe.ensemble[1][k].id # probe.observers[i].id
        /\ calculateFitness(probe.observers[i]) < probe.ensemble[1][3].fitness

\* C13: among observers of equal fitness the elite selection ranks the lower
\* id first, whatever the order of the population array: in the ensemble an
\* observer never stands before one of equal fitness and lower id, and an
\* observer is never taken while one of equal fitness and lower id is left out.
C13_TiesRankLowerIdFirst ==
    ~IsNull(probe.ensemble) =>
        LET observers == probe.observers
            ensemble == probe.ensemble[1]
            taken == {ensemble[k].id : k \in DOMAIN ensemble}
        IN  /\ \A k \in DOMAIN ensemble : \A l \in DOMAIN ensemble :
                (k < l /\ ensemble[k].fitness = ensemble[l].fitness)
                    => ensemble[k].id < ensemble[l].id
            /\ \A i \in DOMAIN observers : \A k \in DOMAIN ensemble :
                (observers[i].id \notin taken
                    /\ calculateFitness(observers[i]) = ensemble[k].fitness)
                    => ensemble[k].id < observers[i].id

-----------------------------------------------------------------------------
(* Strategy genes (evolutionaryLearningService, professionalTrainingService).
   A gene and a learning rate are in thousandths, a diversity score in
   millionths; a product is rounded down to the grid.  A value that the code
   draws with Math.random() is an input of the operator. *)

GeneNames == {"riskTolerance", "trendFollowing", "volatilityPreference", "holdingBias"}

StrategyGenes(riskTolerance, trendFollowing, volatilityPreference, holdingBias) ==
    [riskTolerance |-> riskTolerance, trendFollowing |-> trendFollowing,
     volatilityPreference |-> volatilityPreference, holdingBias |-> holdingBias]

\* variant of evolveObserver without the early return for an observer that is
\* at least as fit as the elite
evolveObserverWithoutGuard(observer, elite, eliteFitness, learningRate) ==
    LET observerFitness == calculateFitness(observer)
        fitnessGap == eliteFitness - observerFitness
        evolutionStrength == (Min(100000, fitnessGap * 2) * learningRate) \div 100000
        evolvedGenes ==
            [gene \in GeneNames |->
                observer.strategyGenes[gene]
                  + ((elite.strategyGenes[gene] - observer.strategyGenes[gene])
                        * evolutionStrength) \div 1000]
    IN  [observer EXCEPT !.strategyGenes = evolvedGenes, !.fitness = observerFitness]

\* evolveObserver(observer, elite, eliteFitness, learningRate)
evolveObserver(observer, elite, eliteFitness, learningRate) ==
    LET observerFitness == calculateFitness(observer)
        fitnessGap == eliteFitness - observerFitness
        evolutionStrength == (Min(100000, fitnessGap * 2) * learningRate) \div 100000
        evolvedGenes ==
            [gene \in GeneNames |->
                observer.strategyGenes[gene]
                  + ((elite.strategyGenes[gene] - observer.strategyGenes[gene])
                        * evolutionStrength) \div 1000]
    IN  IF observerFitness >= eliteFitness THEN observer
        ELSE [observer EXCEPT !.strategyGenes = evolvedGenes, !.fitness = observerFitness]

\* the range a perturbed gene is clamped to, and the scale of its perturbation
GeneMin(gene) == IF gene = "holdingBias" THEN -1000 ELSE 0
GeneMax(gene) == 1000
GeneScale(gene) == IF gene = "holdingBias" THEN 2 ELSE 1

\* Math.max(lo, Math.min(1, value + (Math.random() - 0.5) * strength)), where
\* noise is Math.random() - 0.5
perturbed(value, gene, noise, strength) ==
    Clamp(value + (noise * strength * GeneScale(gene)) \div 1000, GeneMin(gene), GeneMax(gene))

\* mutateStrategyGenes(observer, mutationRate, mutationStrength): random.returns
\* is the outcome of Math.random() > mutationRate, random.mutated the genes
\* whose Math.random() < 0.5 came out true, random.noise their perturbations
mutateStrategyGenes(observer, mutationStrength, random) ==
    IF random.returns THEN observer
    ELSE [observer EXCEPT !.strategyGenes =
            [gene \in GeneNames |->
                IF gene \in random.mutated
                THEN perturbed(observer.strategyGenes[gene], gene, random.noise[gene], mutationStrength)
                ELSE observer.strategyGenes[gene]]]

\* calculateObserverDiversity(observers): sum of the variances of the genes,
\* at most 1
calculateObserverDiversity(observers) ==
    LET n == Len(observers)
        values(gene) == [i \in DOMAIN observers |-> observers[i].strategyGenes[gene]]
        squares(gene) == [i \in DOMAIN observers |-> values(gene)[i] * values(gene)[i]]
        \* n * n * variance
        spread(gene) == n * SumSeq(squares(gene)) - SumSeq(values(gene)) * SumSeq(values(gene))
        totalVariance ==
            (spread("riskTolerance") + spread("trendFollowing")
                + spread("volatilityPreference") + spread("holdingBias")) \div (n * n)
    IN  IF n = 0 THEN 0 ELSE Min(1000000, totalVariance)

MinDiversity == 300000
PerturbationStrength == 200
MutationStrength == 100

\* maintainDiversity(observers, minDiversity, perturbationStrength) on observers
\* that carry their genes; noise[i] holds the draws for observers[i].
\* slice(-numToPerturb) is the whole array when numToPerturb is 0.
maintainDiversityOfGenes(observers, minDiversity, perturbationStrength, noise) ==
    LET currentDiversity == calculateObserverDiversity(observers)
        withFitness == [i \in DOMAIN observers |->
                            [observers[i] EXCEPT !.fitness = calculateFitness(observers[i])]]
        numToPerturb == (Len(observers) * 3) \div 10
        toPerturbIds ==
            {observers[i].id : i \in {j \in DOMAIN observers :
                \/ numToPerturb = 0
                \/ sortedPosition(withFitness, j) > Len(observers) - numToPerturb}}
    IN  IF currentDiversity >= minDiversity THEN observers
        ELSE [i \in DOMAIN observers |->
                IF observers[i].id \notin toPerturbIds THEN observers[i]
                ELSE [observers[i] EXCEPT !.strategyGenes =
                        [gene \in GeneNames |->
                            perturbed(observers[i].strategyGenes[gene], gene,
                                      noise[i][gene], perturbationStrength)]]]

\* eliteEnsemble.some(elite => elite.id === obs.id)
isEliteMember(obs, eliteEnsemble) ==
    \E k \in DOMAIN eliteEnsemble : eliteEnsemble[k].id = obs.id

\* the evolution of the observers in one step of runSimulationStep: rewards
\* re-evaluated, the elite ensemble selected, every other observer evolved
\* toward the elite the step picked, every observer mutated
evolvedObservers(observers, learningRate, in) ==
    LET evaluatedObservers ==
            [i \in DOMAIN observers |-> [observers[i] EXCEPT !.reward = in.rewards[i]]]
        eliteEnsemble == selectEliteEnsemble(evaluatedObservers, TopN)
        avgEliteFitness ==
            SumSeq([k \in DOMAIN eliteEnsemble |-> calculateFitness(eliteEnsemble[k])])
                \div Len(eliteEnsemble)
        targetElite == eliteEnsemble[Min(in.target, Len(eliteEnsemble))]
    IN  [i \in DOMAIN observers |->
            LET obs == evaluatedObservers[i]
                evolved ==
                    IF ~isEliteMember(obs, eliteEnsemble)
                    THEN evolveObserver(obs, targetElite, avgEliteFitness, learningRate)
                    ELSE obs
            IN  mutateStrategyGenes(evolved, MutationStrength, in.random[i])]

(* Populations of the gene harness.  A fresh population holds the ids 0..n-1
   in order, genes inside the ranges initializeSimulation draws from, an empty
   experience buffer and no lifetime P&L; an imported population holds whatever
   the checkpoint file holds. *)
FreshGenes ==
    << StrategyGenes(300, 0, 0, -200), StrategyGenes(799, 999, 999, 199),
       StrategyGenes(500, 500, 500, 0) >>

ImportedGenes == StrategyGenes(1500, 500, 500, 0)

GeneObserver(id, reward, strategyGenes) ==
    [id |-> id, n |-> 100 + id, reward |-> reward, experienceBuffer |-> <<>>,
     lifetimeTradingPnL |-> 0, fitness |-> 0, strategyGenes |-> strategyGenes]

\* choice 0: every observer holds the same genes; otherwise the genes rotate
FreshGenePopulation(n, choice) ==
    [i \in 1..n |->
        GeneObserver(i - 1, 50,
            IF choice = 0 THEN FreshGenes[3]
            ELSE FreshGenes[((i + choice) % Len(FreshGenes)) + 1])]

GenePopulations ==
    UNION {
        {[source |-> "fresh", observers |-> FreshGenePopulation(n, choice)],
         [source |-> "imported",
          observers |-> [FreshGenePopulation(n, choice) EXCEPT ![1].strategyGenes = ImportedGenes]]} :
        n \in (MaxPopulation - 1)..MaxPopulation, choice \in 0..2 }

GeneLearningRates == {1, 50, 200}

GeneRandoms(n) ==
    {[i \in 1..n |-> [returns |-> TRUE, mutated |-> {}, noise |-> [gene \in GeneNames |-> 0]]]}
    \cup {[i \in 1..n |->
            [returns |-> i # who, mutated |-> GeneNames, noise |-> [gene \in GeneNames |-> noise]]] :
          who \in {1, n}, noise \in {-500, 499}}

GeneStepInputs(n) ==
    [rewards : {[i \in 1..n |-> IF (i + k) % 2 = 0 THEN 80 ELSE 50] : k \in 0..1},
     target : 1..2,
     random : GeneRandoms(n)]

InitGenes ==
    /\ ControllerInit
    /\ \E population \in GenePopulations, learningRate \in GeneLearningRates :
        probe = [calls |-> 0, source |-> population.source, learningRate |-> learningRate,
                 observers |-> population.observers, before |-> population.observers,
                 event |-> "initializeSimulation"]

GeneStep ==
    /\ probe.calls < MaxCalls
    /\ \E in \in GeneStepInputs(Len(probe.observers)) :
        probe' = [probe EXCEPT !.calls = @ + 1, !.before = probe.observers,
                               !.observers = evolvedObservers(probe.observers, probe.learningRate, in),
                               !.event = "step"]
    /\ UNCHANGED controllerVars

GeneEpochEnd ==
    /\ probe.calls < MaxCalls
    /\ \E noise \in {-500, 499} :
        probe' = [probe EXCEPT !.calls = @ + 1, !.before = probe.observers,
                               !.observers = maintainDiversityOfGenes(probe.observers, MinDiversity,
                                    PerturbationStrength,
                                    [i \in DOMAIN probe.observers |-> [gene \in GeneNames |-> noise]]),
                               !.event = "epochEnd"]
    /\ UNCHANGED controllerVars

SpecGenes == InitGenes /\ [][GeneStep \/ GeneEpochEnd]_vars

GenesInRange(observer) ==
    /\ \A gene \in GeneNames \ {"holdingBias"} :
        observer.strategyGenes[gene] >= 0 /\ observer.strategyGenes[gene] <= 1000
    /\ observer.strategyGenes.holdingBias >= -1000
    /\ observer.strategyGenes.holdingBias <= 1000

\* C14: for all observers at all times (after initialization, after the
\* evolveObserver and mutateStrategyGenes of every step, after maintainDiversity
\* at an epoch end) riskTolerance, trendFollowing and volatilityPreference lie
\* in [0,1] and holdingBias lies in [-1,1].
C14_GenesInRange ==
    \A i \in DOMAIN probe.observers : GenesInRange(probe.observers[i])

-----------------------------------------------------------------------------
(* Collective phase vector (App.tsx, constants.ts).  A phase, a learning
   rate and a trading weight are in thousandths, a predicted value in halves,
   a lifetime P&L in whole dollars; a product is rounded down to the grid. *)

\* variant of PRIMES: the last prime missing
PRIMESWithoutLast ==
    << 2, 3, 5, 7, 11, 13, 17, 19, 23, 29, 31, 37, 41,
       43, 47, 53, 59, 61, 67, 71, 73, 79, 83, 89, 97, 101, 103, 107, 109 >>

PRIMES ==
    << 2, 3, 5, 7, 11, 13, 17, 19, 23, 29, 31, 37, 41,
       43, 47, 53, 59, 61, 67, 71, 73, 79, 83, 89, 97, 101, 103, 107, 109, 113 >>

\* PRIMES.reduce((acc, p) => { acc[p] = 0; return acc; }, {})
initialCollectivePhase == [p \in {PRIMES[i] : i \in DOMAIN PRIMES} |-> 0]

\* Math.round of a value given in halves: the nearest integer, a half goes up
MathRound(halves) == (halves + 1) \div 2

\* the % of the language: the result has the sign of the dividend
Remainder(a, b) == IF a >= 0 THEN a % b ELSE -((-a) % b)

\* Math.max(0.5, Math.min(1.5, 1.0 + lifetimeTradingPnL / 1000))
tradingWeight(lifetimeTradingPnL) == Clamp(1000 + lifetimeTradingPnL, 500, 1500)

\* variant of the effective learning rate: never below the smallest step
effectiveLearningRateAtLeastOne(learningRate, lifetimeTradingPnL) ==
    Max(1, (learningRate * tradingWeight(lifetimeTradingPnL)) \div 1000)

\* params.learningRate * tradingWeight
effectiveLearningRate(learningRate, lifetimeTradingPnL) ==
    (learningRate * tradingWeight(lifetimeTradingPnL)) \div 1000

\* the phase update of a step: a copy of the vector in which every prime of
\* PRIMES is assigned (1 - rate) * oldPhase + rate * eliteMod
newCollectivePhaseVector(collectivePhaseVector, newEliteN, lifetimeTradingPnL, learningRate) ==
    LET rate == effectiveLearningRate(learningRate, lifetimeTradingPnL)
        assigned == {PRIMES[i] : i \in DOMAIN PRIMES}
    IN  [p \in DOMAIN collectivePhaseVector \cup assigned |->
            IF p \in assigned
            THEN LET oldPhase == collectivePhaseVector[p]
                     eliteMod == Remainder(MathRound(newEliteN), p)
                 IN  ((1000 - rate) * oldPhase + rate * eliteMod * 1000) \div 1000
            ELSE collectivePhaseVector[p]]

\* learning rates: 0, and the ends and the default of the slider
PhaseLearningRates == {0, 1, 50, 200}

\* predicted values of the elite, in halves: -3.5, 0, 56.5, 112, 30000.  The
\* elite's n is a price near the market's for a population the controller
\* created and whatever number the checkpoint file holds for an imported one.
PhaseEliteValues == {-7, 0, 113, 224, 60000}

PhaseLifetimePnLs == {-1000, 0, 1000}

InitPhase ==
    /\ ControllerInit
    /\ probe = [calls |-> 0, collectivePhaseVector |-> initialCollectivePhase,
                before |-> initialCollectivePhase, call |-> Null]

PhaseStep ==
    /\ probe.calls < MaxCalls
    /\ \E learningRate \in PhaseLearningRates, newEliteN \in PhaseEliteValues,
          lifetimeTradingPnL \in PhaseLifetimePnLs :
        probe' = [calls |-> probe.calls + 1,
                  collectivePhaseVector |->
                      newCollectivePhaseVector(probe.collectivePhaseVector, newEliteN,
                                               lifetimeTradingPnL, learningRate),
                  before |-> probe.collectivePhaseVector,
                  call |-> Some([learningRate |-> learningRate, newEliteN |-> newEliteN,
                                 lifetimeTradingPnL |-> lifetimeTradingPnL])]
    /\ UNCHANGED controllerVars

SpecPhase == InitPhase /\ [][PhaseStep]_vars

\* C15: starting from the all-zero vector, after any number of phase updates
\* the phase of every prime p lies within [0, p-1], for every learning rate
\* and every elite (predicted value, lifetime P&L) the step engine supplies.
C15_PhaseWithinPrimeRange ==
    \A p \in DOMAIN probe.collectivePhaseVector :
        /\ probe.collectivePhaseVector[p] >= 0
        /\ probe.collectivePhaseVector[p] <= (p - 1) * 1000

\* C16: a phase update with learningRate = 0 leaves the collective phase
\* vector as it was, whatever the vector, the elite's predicted value and its
\* lifetime trading P&L are.
C16_ZeroLearningRateKeepsPhase ==
    (~IsNull(probe.call) /\ probe.call[1].learningRate = 0)
        => probe.collectivePhaseVector = probe.before

\* an update with learningRate 0 of a vector that an earlier update moved, for
\* an elite whose value is not a multiple of 2 and whose P&L is at the cap
C16_Witness ==
    /\ ~IsNull(probe.call)
    /\ probe.call[1].learningRate = 0
    /\ probe.call[1].lifetimeTradingPnL = 1000
    /\ Remainder(MathRound(probe.call[1].newEliteN), 2) # 0
    /\ probe.before # initialCollectivePhase
    /\ probe.collectivePhaseVector = probe.before

IsPrime(n) == n > 1 /\ \A d \in 2..(n - 1) : n % d # 0

\* C17: the keys of the collective phase vector are exactly the first 30
\* primes, after initialization and after every step.
C17_PhaseKeysAreTheFirstThirtyPrimes ==
    LET keys == DOMAIN probe.collectivePhaseVector
    IN  /\ Cardinality(keys) = 30
        /\ \A p \in keys : IsPrime(p)
        /\ \A n \in 2..113 : IsPrime(n) => n \in keys

\* a vector that steps have moved, still with its 30 keys
C17_Witness ==
    /\ probe.calls = MaxCalls
    /\ probe.collectivePhaseVector # initialCollectivePhase
    /\ Cardinality(DOMAIN probe.collectivePhaseVector) = 30

-----------------------------------------------------------------------------
(* Experience buffers over many steps.  The buffers start with the records
   of the steps already taken, one per step and observer, numbered by their
   step; appended[i] lists every record ever recorded for observer i. *)

PastExperience(step) ==
    [timestamp |-> step, action |-> "HOLD", proposedSize |-> 5, outcome |-> 0,
     wasExecuted |-> FALSE]

BufferObserver(id, stepsTaken) ==
    [id |-> id, proposedAction |-> "HOLD", proposedSize |-> 5,
     experienceBuffer |-> [step \in 1..stepsTaken |-> PastExperience(step)]]

StepsTaken == {0, MAX_EXPERIENCE_BUFFER - 2, MAX_EXPERIENCE_BUFFER - 1, MAX_EXPERIENCE_BUFFER}

InitBuffer ==
    /\ ControllerInit
    /\ \E stepsTaken \in StepsTaken :
        LET observers == [i \in 1..NumObservers |-> BufferObserver(i - 1, stepsTaken)]
        IN  probe = [calls |-> 0, stepsTaken |-> stepsTaken, observers |-> observers,
                     appended |-> [i \in 1..NumObservers |-> observers[i].experienceBuffer]]

BufferStep ==
    /\ probe.calls < MaxCalls
    /\ \E choice \in ProposalChoices, tradingOutcome \in {Null, Some(10), Some(-10)},
          executedAction \in Actions :
        LET nextStep == probe.stepsTaken + probe.calls + 1
            proposing ==
                [i \in DOMAIN probe.observers |->
                    [probe.observers[i] EXCEPT
                        !.proposedAction = ProposedAction(choice, probe.observers[i].id),
                        !.proposedSize = ProposedSize(choice, probe.observers[i].id)]]
            recorded == recordExperiences(proposing, nextStep, tradingOutcome, executedAction)
        IN  probe' = [probe EXCEPT
                        !.calls = @ + 1,
                        !.observers = recorded,
                        !.appended = [i \in DOMAIN probe.observers |->
                            Append(probe.appended[i],
                                [timestamp |-> nextStep,
                                 action |-> proposing[i].proposedAction,
                                 proposedSize |-> proposing[i].proposedSize,
                                 outcome |-> OrElse(tradingOutcome, 0),
                                 wasExecuted |-> /\ proposing[i].proposedAction = executedAction
                                                 /\ ~IsNull(tradingOutcome)])]]
    /\ UNCHANGED controllerVars

SpecBuffer == InitBuffer /\ [][BufferStep]_vars

\* C18: after any sequence of recordings the buffer of an observer holds at
\* most 500 records and is exactly the most recent min(k, 500) of the k
\* records appended so far, in the order and with the content they were
\* appended with; a step appends exactly one record to every observer.
C18_BufferIsTheLastFiveHundred ==
    \A i \in DOMAIN probe.observers :
        LET buffer == probe.observers[i].experienceBuffer
            appended == probe.appended[i]
            k == Len(appended)
        IN  /\ k = probe.stepsTaken + probe.calls
            /\ Len(buffer) <= 500
            /\ Len(buffer) = Min(k, 500)
            /\ \A j \in 1..Len(buffer) : buffer[j] = appended[k - Len(buffer) + j]

\* a full buffer after two more steps: the two oldest records are gone
C18_Witness ==
    /\ probe.stepsTaken = 500
    /\ probe.calls = 2
    /\ Len(probe.observers[1].experienceBuffer) = 500
    /\ probe.observers[1].experienceBuffer[1].timestamp = 3
    /\ probe.observers[1].experienceBuffer[500].timestamp = 502
    /\ probe.observers[1].experienceBuffer[500].wasExecuted

-----------------------------------------------------------------------------
\* the ids of the observers of a guild, in array order
ObserverIds(g) == [i \in DOMAIN g[1].observers |-> g[1].observers[i].id]

\* a transition that is a simulation step or belongs to an epoch boundary of
\* a training run: the end-of-epoch processing, the auto-restart, the arrival
\* of the data of the next timeframe
StepOrEpochBoundary ==
    \/ lastEvent'.kind \in {"step", "epochEnd", "autoRestart"}
    \/ /\ lastEvent'.kind = "data"
       /\ trainingState.isTraining
       /\ ~IsNull(preservedObserversRef)

\* C19: the population is stable: the sequence of observer ids of the guild
\* is the same before and after every step and across an epoch boundary of a
\* training run, and no id occurs twice.
C19_PopulationStable ==
    [][(StepOrEpochBoundary /\ ~IsNull(guild) /\ ~IsNull(guild'))
            => /\ ObserverIds(guild') = ObserverIds(guild)
               /\ \A i \in DOMAIN ObserverIds(guild') : \A j \in DOMAIN ObserverIds(guild') :
                    ObserverIds(guild')[i] = ObserverIds(guild')[j] => i = j]_vars

\* the guild re-initialised from the observers preserved at the end of an
\* epoch, in a training run that goes on
C19_Witness ==
    /\ lastEvent.kind = "epochEnd"
    /\ lastEvent.training
    /\ reinitialized
    /\ trainingState.isTraining
    /\ ~IsNull(preservedObserversRef)
    /\ ~IsNull(guild)
    /\ guild[1].observers = preservedObserversRef[1]
    /\ Len(guild[1].observers) = NumObservers

-----------------------------------------------------------------------------
(* Early stopping over a history of epoch records.  A validation win rate
   is in percent; a record without validation holds Null. *)

MaxEpochMetrics == 5

ValidationWinRates == {Null, Some(0), Some(50), Some(52), Some(55), Some(60)}

InitStop ==
    /\ ControllerInit
    /\ probe = [epochMetrics |-> <<>>, stop |-> Null]

\* one more epoch record, and the decision on the history that includes it
StopCall ==
    /\ Len(probe.epochMetrics) < MaxEpochMetrics
    /\ \E validationWinRate \in ValidationWinRates :
        LET newMetrics == Append(probe.epochMetrics,
                                 [epoch |-> Len(probe.epochMetrics),
                                  validationWinRate |-> validationWinRate])
        IN  probe' = [epochMetrics |-> newMetrics,
                      stop |-> Some(shouldStopEarly(newMetrics, Patience, MinEpochs))]
    /\ UNCHANGED controllerVars

SpecStop == InitStop /\ [][StopCall]_vars

\* the validation win rates of a history, records without validation left out
ValidationRates(epochMetrics) ==
    LET bearing == SelectSeq(epochMetrics, LAMBDA m : ~IsNull(m.validationWinRate))
    IN  [i \in DOMAIN bearing |-> bearing[i].validationWinRate[1]]

SyntheticRates == <<50, 60, 55, 50, 52>>

\* C20: shouldStopEarly(metrics, 3, 3) is true only when at least 3 records
\* bear a validation win rate and the first occurrence of the best rate is at
\* least 3 positions before the last of them; for the rates
\* [0.5, 0.6, 0.55, 0.5, 0.52] it is false on every prefix of length 1 to 4
\* and true on the whole sequence.
C20_StopsAfterThreeWithoutImprovement ==
    ~IsNull(probe.stop) =>
        LET rates == ValidationRates(probe.epochMetrics)
            n == Len(rates)
        IN  /\ probe.stop[1] =>
                /\ n >= 3
                /\ \E first \in 1..n :
                    /\ \A i \in 1..n : rates[i] <= rates[first]
                    /\ \A i \in 1..(first - 1) : rates[i] < rates[first]
                    /\ n - first >= 3
            /\ (Len(probe.epochMetrics) = n /\ n <= 4 /\ rates = SubSeq(SyntheticRates, 1, n))
                    => ~probe.stop[1]
            /\ (Len(probe.epochMetrics) = n /\ rates = SyntheticRates) => probe.stop[1]

\* the decision to stop on the synthetic sequence
C20_Witness ==
    /\ ~IsNull(probe.stop)
    /\ Len(probe.epochMetrics) = 5
    /\ ValidationRates(probe.epochMetrics) = SyntheticRates
    /\ probe.stop[1]

-----------------------------------------------------------------------------
\* C21: the EpochMetrics history holds exactly one record per completed
\* epoch: after the end-of-epoch processing of a training run (the controller
\* is then between epochs or stopped) its length equals
\* trainingState.epochsCompleted, and it never exceeds targetEpochs.
C21_OneRecordPerCompletedEpoch ==
    (lastEvent.kind = "epochEnd" /\ lastEvent.training) =>
        /\ Len(trainingState.epochMetrics) = trainingState.epochsCompleted
        /\ Len(trainingState.epochMetrics) <= params.targetEpochs

\* C22: maintainDiversity returns the population as it is when the diversity
\* score is at least 0.3; below that it perturbs only the floor(0.3 * N)
\* observers of lowest fitness, for every population size N >= 1, and a
\* perturbed observer changes in its strategy genes only.
C22_PerturbsOnlyBottomThirtyPercent ==
    probe.event = "epochEnd" =>
        LET n == Len(probe.before)
            changed == {i \in DOMAIN probe.before : probe.observers[i] # probe.before[i]}
        IN  /\ Len(probe.observers) = n
            /\ calculateObserverDiversity(probe.before) >= 300000 => changed = {}
            /\ Cardinality(changed) <= (3 * n) \div 10
            /\ \A i \in changed :
                [probe.observers[i] EXCEPT !.strategyGenes = probe.before[i].strategyGenes]
                    = probe.before[i]
            /\ \A i \in changed : \A j \in DOMAIN probe.before \ changed :
                calculateFitness(probe.before[i]) <= calculateFitness(probe.before[j])

\* the entry of the cycle list one position after a timeframe, wrapping
NextTimeframe(timeframe) ==
    LET position == CHOOSE i \in DOMAIN TRAINING_TIMEFRAMES : TRAINING_TIMEFRAMES[i] = timeframe
    IN  TRAINING_TIMEFRAMES[(position % Len(TRAINING_TIMEFRAMES)) + 1]

\* C23: with timeframe cycling, the end-of-epoch processing of a training run
\* that goes on moves the timeframe to the entry of the cycle list one
\* position after the timeframe of the epoch that ended, and
\* trainingState.timeframeIndex names the timeframe then in use; without
\* cycling the end-of-epoch processing leaves the timeframe as it is.
C23_TimeframeRoundRobin ==
    [][(lastEvent'.kind = "epochEnd" /\ lastEvent'.training) =>
            IF params.cycleTimeframes /\ trainingState'.isTraining
            THEN /\ params'.timeframe = NextTimeframe(params.timeframe)
                 /\ TRAINING_TIMEFRAMES[trainingState'.timeframeIndex + 1] = params'.timeframe
            ELSE params'.timeframe = params.timeframe]_vars

-----------------------------------------------------------------------------
(* Checkpoints (professionalTrainingService, App.tsx).  A checkpoint file or
   the stored checkpoint is text: it parses as JSON or it does not, and a
   parsed checkpoint holds an observers array or lacks it (Null). *)

CheckpointMetrics == <<calculateEpochMetrics(0, "4h", 0, 0, 0, 0)>>

\* the history of a checkpoint file written elsewhere, whose records carry
\* validation fields: the best validation win rate is three records back
ValidatedCheckpointMetrics ==
    [i \in 1..4 |->
        [calculateEpochMetrics(i - 1, "4h", 0, 0, 0, 0)
            EXCEPT !.validationWinRate = Some(<<60, 55, 50, 52>>[i]),
                   !.validationPnL = Some(0)]]

CheckpointTexts ==
    { [json |-> FALSE, observers |-> Null, trainingMetrics |-> <<>>, totalEpochs |-> 0],
      [json |-> TRUE, observers |-> Null, trainingMetrics |-> CheckpointMetrics,
       totalEpochs |-> 1],
      [json |-> TRUE, observers |-> Some(FreshObservers(NumObservers, 1)),
       trainingMetrics |-> CheckpointMetrics, totalEpochs |-> 1],
      [json |-> TRUE, observers |-> Some(FreshObservers(NumObservers, 1)),
       trainingMetrics |-> ValidatedCheckpointMetrics, totalEpochs |-> 0] }

\* importModel(file): resolves with whatever JSON.parse returns, rejects when
\* the text does not parse
importModel(text) == IF text.json THEN Some(text) ELSE Null

\* loadModel(): null when the text does not parse or when reading
\* checkpoint.observers.length for the log line throws
loadModel(text) ==
    IF ~text.json THEN Null
    ELSE IF IsNull(text.observers) THEN Null
    ELSE Some(text)

\* what both handlers do with a checkpoint before they report it: the ref and
\* the training state are assigned
AssignCheckpoint(checkpoint) ==
    /\ preservedObserversRef' = checkpoint.observers
    /\ trainingState' = [trainingState EXCEPT !.epochMetrics = checkpoint.trainingMetrics,
                                              !.epochsCompleted = checkpoint.totalEpochs]

CheckpointEvent(kind, failed) ==
    [kind |-> kind, failed |-> failed,
     before |-> [preservedObservers |-> preservedObserversRef,
                 epochMetrics |-> trainingState.epochMetrics,
                 epochsCompleted |-> trainingState.epochsCompleted]]

\* handleImportModel(file).  The alert that reports the import reads
\* checkpoint.observers.length after the ref and the training state were
\* assigned; when it throws, the catch reports a failure and setParams is
\* not reached.
handleImportModel ==
    /\ userCommands < MaxUserCommands
    /\ \E text \in CheckpointTexts :
        LET checkpoint == importModel(text)
        IN  IF IsNull(checkpoint)
            THEN /\ lastEvent' = CheckpointEvent("import", TRUE)
                 /\ UNCHANGED <<params, pendingFetches, closureTrainingState, currentTimeStep,
                                guild, tradingStats, reinitialized, trainingState,
                                preservedObserversRef>>
            ELSE /\ AssignCheckpoint(checkpoint[1])
                 /\ IF IsNull(checkpoint[1].observers)
                    THEN /\ lastEvent' = CheckpointEvent("import", TRUE)
                         /\ UNCHANGED <<params, pendingFetches, closureTrainingState,
                                        currentTimeStep, guild, tradingStats, reinitialized>>
                    ELSE /\ lastEvent' = CheckpointEvent("import", FALSE)
                         /\ AfterSetParams(params, checkpoint[1].observers, trainingState')
    /\ userCommands' = userCommands + 1
    /\ UNCHANGED <<isRunning, marketData, lastTradeRef, ticks, probe>>

\* handleLoadModel()
handleLoadModel ==
    /\ userCommands < MaxUserCommands
    /\ \E text \in CheckpointTexts :
        LET checkpoint == loadModel(text)
        IN  IF IsNull(checkpoint)
            THEN /\ lastEvent' = CheckpointEvent("load", TRUE)
                 /\ UNCHANGED <<params, pendingFetches, closureTrainingState, currentTimeStep,
                                guild, tradingStats, reinitialized, trainingState,
                                preservedObserversRef>>
            ELSE /\ AssignCheckpoint(checkpoint[1])
                 /\ lastEvent' = CheckpointEvent("load", FALSE)
                 /\ AfterSetParams(params, checkpoint[1].observers, trainingState')
    /\ userCommands' = userCommands + 1
    /\ UNCHANGED <<isRunning, marketData, lastTradeRef, ticks, probe>>

NextCheckpoint ==
    \/ Next
    \/ handleImportModel
    \/ handleLoadModel

\* The controller with the user's commands, training and checkpoints
SpecCheckpoint == Init /\ [][NextCheckpoint]_vars

\* C24: a load or an import of a malformed checkpoint (text that is not
\* JSON, or JSON without an observers array) that reports a failure leaves
\* the preserved observers, the EpochMetrics history and epochsCompleted as
\* they were, and the controller goes on with a non-empty population.
C24_FailedLoadChangesNothing ==
    (lastEvent.kind \in {"import", "load"} /\ lastEvent.failed) =>
        /\ preservedObserversRef = lastEvent.before.preservedObservers
        /\ trainingState.epochMetrics = lastEvent.before.epochMetrics
        /\ trainingState.epochsCompleted = lastEvent.before.epochsCompleted
        /\ ~IsNull(marketData) => (~IsNull(guild) /\ Len(guild[1].observers) >= 1)

-----------------------------------------------------------------------------
(* Prediction reward (simulationService).  A reward is kept as the number
   the arithmetic of the language yields: exp(num / den), 0, or NaN.  A call
   that throws would yield Null. *)

Abs(x) == IF x < 0 THEN -x ELSE x

\* Math.exp(x) of a double is 0 for x below -745.133 (half of the least
\* positive double is exp(-1075 ln 2)); in thousandths
ExpUnderflow == 745133

\* Math.exp(-k * error ** 2) with k = 10 / actual.  10 / 0 is Infinity;
\* -Infinity * error ** 2 is -Infinity for error > 0 and NaN for error = 0;
\* Math.exp(-Infinity) is 0.
RewardValue(error, actual) ==
    IF actual > 0 /\ 10 * error * error * 1000 > ExpUnderflow * actual
    THEN [kind |-> "zero", num |-> 0, den |-> 1]
    ELSE IF actual # 0 THEN [kind |-> "exp", num |-> -10 * error * error, den |-> actual]
    ELSE IF error # 0 THEN [kind |-> "zero", num |-> 0, den |-> 1]
    ELSE [kind |-> "NaN", num |-> 0, den |-> 1]

\* calculateReward(prediction, actual): no statement of it throws
calculateReward(prediction, actual) ==
    LET error == Abs(prediction - actual)
    IN  Some([reward |-> RewardValue(error, actual), error |-> error])

RewardPredictions == 0..12
RewardActuals == {0, 1, 5, 10, 100}

InitReward ==
    /\ ControllerInit
    /\ probe = [calls |-> 0, call |-> Null]

RewardCall ==
    /\ probe.calls < MaxCalls
    /\ \E prediction \in RewardPredictions, actual \in RewardActuals :
        probe' = [calls |-> probe.calls + 1,
                  call |-> Some([prediction |-> prediction, actual |-> actual,
                                 result |-> calculateReward(prediction, actual)])]
    /\ UNCHANGED controllerVars

SpecReward == InitReward /\ [][RewardCall]_vars

\* C25: calculateReward fails with a division-by-zero error when actual = 0,
\* for every prediction: it returns no reward value (0, NaN or any number).
C25_ZeroPriceFails ==
    (~IsNull(probe.call) /\ probe.call[1].actual = 0) => IsNull(probe.call[1].result)

-----------------------------------------------------------------------------
(* Short price series.  A fetch can return fewer candles than usual. *)

\* the least marketData.length with which indices 59, 60 and 61 exist
MinimumWindow == StartIndex + 2

ShortSeries ==
    {[closes |-> <<100, 100, 100, 100, 100, 100>>,
      volatility |-> 20, trendStrength |-> 7, phaseConsensus |-> 6, length |-> length] :
        length \in {StartIndex - 1, StartIndex + 1}}

\* initializeSimulation reads marketData[59].close, and marketData[60].close
\* for every observer it creates; reading .close of a missing candle throws
initializationThrows(series, preserved) ==
    \/ series.length <= StartIndex - 1
    \/ IsNull(preserved) /\ series.length <= StartIndex

\* a fetchMarketData promise resolves with a series of any length.  When the
\* initialisation effect throws, React unmounts the component: no later
\* event is handled.
DataOfAnyLengthArrives ==
    /\ lastEvent.kind # "crash"
    /\ \E timeframe \in pendingFetches, series \in QuietSeries \cup ShortSeries :
        /\ marketData' = Some([timeframe |-> timeframe, series |-> series])
        /\ pendingFetches' = pendingFetches \ {timeframe}
        /\ IF initializationThrows(series, preservedObserversRef)
           THEN /\ lastEvent' = [kind |-> "crash"]
                /\ UNCHANGED <<currentTimeStep, guild, tradingStats, reinitialized,
                               closureTrainingState>>
           ELSE /\ initializeSimulation(params, preservedObserversRef)
                /\ closureTrainingState' = Captured(trainingState)
                /\ lastEvent' = [kind |-> "data"]
    /\ UNCHANGED <<params, isRunning, trainingState, preservedObserversRef, lastTradeRef,
                   ticks, userCommands, probe>>

ControllerEvent ==
    /\ lastEvent.kind # "crash"
    /\ \/ Step(QuietInputs)
       \/ EpochEnd
       \/ EndOfData
       \/ AutoRestart
       \/ ApplyChanges
       \/ StartTrainingClick
       \/ ToggleRunning

NextAnyData ==
    \/ DataOfAnyLengthArrives
    \/ ControllerEvent

\* The controller over series of any length
SpecAnyData == Init /\ [][NextAnyData]_vars

\* C26: on a price series shorter than the minimum window (indices 59, 60
\* and 61 must exist) the controller fails: no guild is set up from that
\* series and no EpochMetrics record is appended for it.
C26_ShortSeriesStartsNothing ==
    (~IsNull(marketData) /\ marketData[1].series.length < MinimumWindow) =>
        /\ lastEvent.kind # "data"
        /\ lastEvent.kind # "epochEnd"
        /\ lastEvent.kind # "step"

-----------------------------------------------------------------------------
(* Train / validation split.  valSplitRatio is in hundredths; the ratios
   used are 0, 0.2, 0.25, 0.5 and 1, for which the floating-point product
   totalSteps * valSplitRatio has the floor of the exact product. *)

\* the indices pushed by `for (let i = first; i < end; i++)`
IndexRange(first, end) ==
    [i \in 1..Max(0, end - first) |-> first + i - 1]

\* variant: the validation loop runs through the last candle
createTrainValSplitThroughLastCandle(dataLength, valSplitRatio, startIndex) ==
    LET totalSteps == dataLength - startIndex - 1
        valSize == (totalSteps * valSplitRatio) \div 100
        trainSize == totalSteps - valSize
    IN  [trainIndices |-> IndexRange(startIndex, startIndex + trainSize),
         valIndices |-> IndexRange(startIndex + trainSize, dataLength)]

createTrainValSplit(dataLength, valSplitRatio, startIndex) ==
    LET totalSteps == dataLength - startIndex - 1
        valSize == (totalSteps * valSplitRatio) \div 100
        trainSize == totalSteps - valSize
    IN  [trainIndices |-> IndexRange(startIndex, startIndex + trainSize),
         valIndices |-> IndexRange(startIndex + trainSize, dataLength - 1)]

MaxUsableSteps == 10
SplitRatios == {0, 20, 25, 50, 100}
SplitStartIndices == {0, 2, StartIndex}
SplitDataLengths(startIndex) == 0..MaxUsableSteps \cup {startIndex + k : k \in 0..(MaxUsableSteps + 1)}

InitSplit ==
    /\ ControllerInit
    /\ probe = [calls |-> 0, call |-> Null]

SplitCall ==
    /\ probe.calls < MaxCalls
    /\ \E startIndex \in SplitStartIndices, valSplitRatio \in SplitRatios :
       \E dataLength \in SplitDataLengths(startIndex) :
        probe' = [calls |-> probe.calls + 1,
                  call |-> Some([dataLength |-> dataLength, valSplitRatio |-> valSplitRatio,
                                 startIndex |-> startIndex,
                                 result |-> createTrainValSplit(dataLength, valSplitRatio,
                                                                startIndex)])]
    /\ UNCHANGED controllerVars

SpecSplit == InitSplit /\ [][SplitCall]_vars

Elements(sequence) == {sequence[i] : i \in DOMAIN sequence}

\* C28: createTrainValSplit partitions the usable step indices
\* startIndex .. dataLength-2: with totalSteps = dataLength - startIndex - 1,
\* the first totalSteps - floor(totalSteps * ratio) of them, in order, are the
\* training indices and the remaining floor(totalSteps * ratio) the validation
\* indices; the two are disjoint, training precedes validation, and both are
\* empty when there is no usable step.
C28_SplitPartitionsUsableSteps ==
    ~IsNull(probe.call) =>
        LET call == probe.call[1]
            train == call.result.trainIndices
            val == call.result.valIndices
            totalSteps == call.dataLength - call.startIndex - 1
            usable == call.startIndex .. (call.dataLength - 2)
            floored == CHOOSE k \in -1..MaxUsableSteps + 1 :
                           /\ 100 * k <= totalSteps * call.valSplitRatio
                           /\ totalSteps * call.valSplitRatio < 100 * (k + 1)
        IN  /\ Elements(train) \cup Elements(val) = usable
            /\ Elements(train) \cap Elements(val) = {}
            /\ Len(train) + Len(val) = Cardinality(usable)
            /\ \A i \in DOMAIN train : train[i] = call.startIndex + i - 1
            /\ \A i \in DOMAIN val : val[i] = call.startIndex + Len(train) + i - 1
            /\ \A t \in Elements(train), v \in Elements(val) : t < v
            /\ totalSteps >= 0 => /\ Len(val) = floored
                                  /\ Len(train) = totalSteps - floored
            /\ totalSteps <= 0 => train = <<>> /\ val = <<>>

C28_Witness ==
    /\ ~IsNull(probe.call)
    /\ probe.call[1].dataLength = StartIndex + 11
    /\ probe.call[1].startIndex = StartIndex
    /\ probe.call[1].valSplitRatio = 20
    /\ Len(probe.call[1].result.trainIndices) = 8
    /\ probe.call[1].result.valIndices = <<StartIndex + 8, StartIndex + 9>>

-----------------------------------------------------------------------------
(* Feature extraction over a guild.  calculateVolatility, calculateTrendStrength
   and calculatePhaseConsensus build new arrays with map and reduce and
   assign to none of their arguments; their results are inputs here
   (volatility in thousandths, trend strength and consensus in tenths). *)

\* volatility estimates: the clamp's ends 0.01 and 0.10, the default 0.02, the
\* values around the 0.05 threshold, and values outside the clamp
RegimeVolatilities == {0, 10, 20, 49, 50, 51, 100, 200}
RegimeTrendStrengths == 0..10
RegimePhaseVectors ==
    {initialCollectivePhase,
     newCollectivePhaseVector(initialCollectivePhase, 224, 0, 50)}

InitRegime ==
    /\ ControllerInit
    /\ \E phaseVector \in RegimePhaseVectors :
        probe = [calls |-> 0,
                 guild |-> [observers |-> FreshObservers(NumObservers, 1),
                            eliteReward |-> -100,
                            collectivePhaseVector |-> phaseVector],
                 call |-> Null]

\* extractEcologyFeatures(obs.n, currentPrice, reward, guild.collectivePhaseVector, recentPrices)
extractEcologyFeaturesCall ==
    /\ probe.calls < MaxCalls
    /\ \E eliteReward \in {0, 75}, volatility \in RegimeVolatilities,
          trendStrength \in RegimeTrendStrengths :
        probe' = [probe EXCEPT
                    !.calls = @ + 1,
                    !.call = Some([trendStrength |-> trendStrength, volatility |-> volatility,
                                   features |-> EcologyFeatures(eliteReward, volatility,
                                                                trendStrength, 6)])]
    /\ UNCHANGED controllerVars

SpecRegime == InitRegime /\ [][extractEcologyFeaturesCall]_vars

\* C29: the regime is volatile if volatility > 0.05 whatever the trend
\* strength, else trending if trendStrength > 0.6, else ranging (so the
\* boundary values 0.05 and 0.6 fall into the lower class), for every pair of
\* inputs; extracting the features changes neither the phase vector nor any
\* other guild field.
C29_RegimePriorityAndPurity ==
    [][probe'.calls # probe.calls =>
        LET call == probe'.call[1]
            regime == call.features.marketRegime
        IN  /\ regime \in {"volatile", "trending", "ranging"}
            /\ regime = "volatile" <=> call.volatility > 50
            /\ regime = "trending" <=> (call.volatility <= 50 /\ call.trendStrength > 6)
            /\ regime = "ranging" <=> (call.volatility <= 50 /\ call.trendStrength <= 6)
            /\ probe'.guild = probe.guild
            /\ guild' = guild]_vars

C29_Witness ==
    /\ ~IsNull(probe.call)
    /\ probe.call[1].volatility = 51
    /\ probe.call[1].trendStrength = 10
    /\ probe.call[1].features.marketRegime = "volatile"
    /\ probe.guild.collectivePhaseVector # initialCollectivePhase

-----------------------------------------------------------------------------
(* The stops executeTradingSignal works with *)

\* volatility estimates in thousandths: below, inside and above the range in
\* which the stop is not clamped
RiskVolatilities == {0, 5, 10, 20, 25, 31, 50, 60, 100}

RiskFeatures ==
    {Null} \cup
    {Some([confidence |-> 75, volatilityEstimate |-> volatility, trendStrength |-> 7,
           phaseConsensus |-> 6, marketRegime |-> marketRegime]) :
        volatility \in RiskVolatilities, marketRegime \in {"volatile", "trending", "ranging"}}

RiskSignals == [action : Actions, confidence : {75}, ecologyFeatures : RiskFeatures]

InitRisk ==
    /\ ControllerInit
    /\ probe = [position |-> Null, calls |-> 0, call |-> Null]

RiskCall ==
    /\ probe.calls < MaxCalls
    /\ \E signal \in RiskSignals, currentPrice \in ExecPrices :
        LET timestamp == probe.calls + 1
            result == executeTradingSignal(signal, probe.position, currentPrice, timestamp)
        IN  probe' = [position |-> result.newPosition,
                      calls |-> probe.calls + 1,
                      call |-> Some([signal |-> signal,
                                     stopLossPercent |-> stopLossPercentFor(signal),
                                     takeProfitPercent |->
                                         takeProfitPercentFor(stopLossPercentFor(signal)),
                                     closedPosition |-> result.closedPosition])]
    /\ UNCHANGED controllerVars

SpecRisk == InitRisk /\ [][RiskCall]_vars

\* C30: the stop-loss percent of a call is volatility * 200 * regimeFactor
\* clamped to [1.0, 5.0], the factor being 1.5 for a volatile regime, 0.8 for
\* ranging and 1.0 otherwise; it always lies in [1.0, 5.0], and the
\* take-profit percent is exactly 2.5 times the stop-loss percent.
C30_StopLossClampedTakeProfitTwoAndAHalf ==
    ~IsNull(probe.call) =>
        LET call == probe.call[1]
            features == call.signal.ecologyFeatures
            tenths == IF features[1].marketRegime = "volatile" THEN 15
                      ELSE IF features[1].marketRegime = "ranging" THEN 8
                      ELSE 10
            \* volatility (thousandths) * 200 * factor (tenths), in hundredths of a percent
            scaled == (features[1].volatilityEstimate * 200 * tenths) \div 100
        IN  /\ ~IsNull(features) =>
                /\ scaled < 100 => call.stopLossPercent = 100
                /\ scaled > 500 => call.stopLossPercent = 500
                /\ (scaled >= 100 /\ scaled <= 500) => call.stopLossPercent = scaled
            /\ call.stopLossPercent >= 100
            /\ call.stopLossPercent <= 500
            \* take profit is in two-hundredths of a percent
            /\ 10 * call.takeProfitPercent = 25 * (2 * call.stopLossPercent)

C30_Witness ==
    /\ ~IsNull(probe.call)
    /\ ~IsNull(probe.call[1].signal.ecologyFeatures)
    /\ probe.call[1].signal.ecologyFeatures[1].volatilityEstimate = 20
    /\ probe.call[1].signal.ecologyFeatures[1].marketRegime = "ranging"
    /\ probe.call[1].stopLossPercent = 320
    /\ probe.call[1].takeProfitPercent = 1600

-----------------------------------------------------------------------------
(* The population across epochs *)

\* what an observer carries over an epoch boundary
Carried(observers) ==
    [i \in DOMAIN observers |->
        [id |-> observers[i].id,
         experienceBuffer |-> observers[i].experienceBuffer,
         lifetimeTradingPnL |-> observers[i].lifetimeTradingPnL]]

\* the observers are as Array.from(...) of initializeSimulation creates them
IsFreshPopulation(observers) ==
    \E choice \in ProposalChoices : observers = FreshObservers(Len(observers), choice)

\* C27: when training continues into the next epoch, the population that
\* starts it is the one that ended the previous epoch: every observer keeps
\* its id, experienceBuffer and lifetimeTradingPnL, also when the guild is set
\* up again for the epoch; a fresh population (lifetimeTradingPnL = 0, no
\* experience) replaces the guild's only when no preserved population exists.
C27_PopulationCarriedAcrossEpochs ==
    [][LET used == IF lastEvent'.kind = "startTraining" THEN preservedObserversRef
                   ELSE preservedObserversRef'
       IN  /\ (lastEvent'.kind = "epochEnd" /\ lastEvent'.training /\ trainingState'.isTraining)
                => /\ ~IsNull(guild')
                   /\ Carried(guild'[1].observers) = Carried(guild[1].observers)
                   /\ ~IsNull(preservedObserversRef')
                   /\ Carried(preservedObserversRef'[1]) = Carried(guild[1].observers)
           /\ (lastEvent'.kind \in {"data", "autoRestart"} /\ trainingState.isTraining
                    /\ ~IsNull(preservedObserversRef))
                => guild' = Some([guild'[1] EXCEPT !.observers = preservedObserversRef[1]])
           /\ (~IsNull(guild') /\ guild' # guild /\ IsFreshPopulation(guild'[1].observers))
                => IsNull(used)]_vars

\* a training run that goes on after an epoch in which a trade was credited:
\* the guild set up for the next epoch holds the observers that ended it
C27_Witness ==
    /\ lastEvent.kind = "epochEnd"
    /\ lastEvent.training
    /\ trainingState.isTraining
    /\ reinitialized
    /\ currentTimeStep = StartIndex
    /\ ~IsNull(guild)
    /\ ~IsNull(preservedObserversRef)
    /\ guild[1].observers = preservedObserversRef[1]
    /\ \E i \in DOMAIN guild[1].observers :
        /\ guild[1].observers[i].lifetimeTradingPnL # 0
        /\ guild[1].observers[i].experienceBuffer # <<>>

-----------------------------------------------------------------------------
(* The reward as a function of the error *)

\* a reward value is a positive number, at most 1
RewardInUnitInterval(reward) ==
    reward.kind = "exp" /\ reward.num <= 0 /\ reward.den > 0

\* reward a is greater than reward b, both over the same positive price
RewardGreater(a, b) ==
    /\ a.kind = "exp"
    /\ \/ b.kind = "zero"
       \/ b.kind = "exp" /\ a.num * b.den > b.num * a.den

\* C31: for a positive actual price the reward exp(-(10/actual) * error^2)
\* lies in (0, 1] and is strictly decreasing in the error: a prediction that
\* is nearer to the price than another has the greater reward.
C31_RewardPositiveAndStrictlyDecreasing ==
    (~IsNull(probe.call) /\ probe.call[1].actual > 0) =>
        LET call == probe.call[1]
            reward == call.result[1].reward
        IN  /\ RewardInUnitInterval(reward)
            /\ \A other \in RewardPredictions :
                call.result[1].error < Abs(other - call.actual)
                    => RewardGreater(reward, calculateReward(other, call.actual)[1].reward)

-----------------------------------------------------------------------------
(* The learning rate of the step engine *)

\* C32: the learning rate the schedule computes at the end of an epoch is
\* the rate the step engine works with (params.learningRate) in the epoch
\* that follows, with and without timeframe cycling.
C32_StepEngineUsesScheduledRate ==
    (lastEvent.kind = "epochEnd" /\ lastEvent.training /\ trainingState.isTraining) =>
        params.learningRate = trainingState.currentLearningRate

-----------------------------------------------------------------------------
(* What an epoch record says about its epoch *)

\* C33: the record appended at the end of an epoch describes that epoch: the
\* i-th record of a training run (counted from 0) carries epoch = i and the
\* timeframe of the data the epoch ran on.
C33_RecordDescribesItsEpoch ==
    (lastEvent.kind = "epochEnd" /\ lastEvent.training) =>
        /\ lastEvent.metrics.epoch = Len(trainingState.epochMetrics) - 1
        /\ lastEvent.metrics.timeframe = marketData[1].timeframe

-----------------------------------------------------------------------------
(* Evolution toward the elite, before mutation *)

\* learning rates in thousandths, from 0 to 1
EvolveLearningRates == {0, 1, 50, 200, 1000}

\* the rewards a step evaluates: alternating between two values
EvolveRewards(n) ==
    {[i \in 1..n |-> IF (i + k) % 2 = 0 THEN pair[2] ELSE pair[1]] :
        k \in 0..1, pair \in {<<50, 80>>, <<50, 50>>, <<0, 100>>}}

InitEvolve ==
    /\ ControllerInit
    /\ probe = [calls |-> 0, call |-> Null]

\* evaluatedObservers.map(obs => ...) of runSimulationStep up to evolveObserver
EvolveCall ==
    /\ IsNull(probe.call)
    /\ \E population \in GenePopulations, learningRate \in EvolveLearningRates, target \in 1..TopN :
       \E rewards \in EvolveRewards(Len(population.observers)) :
        LET observers == population.observers
            evaluatedObservers ==
                [i \in DOMAIN observers |-> [observers[i] EXCEPT !.reward = rewards[i]]]
            eliteEnsemble == selectEliteEnsemble(evaluatedObservers, TopN)
            avgEliteFitness ==
                SumSeq([k \in DOMAIN eliteEnsemble |-> calculateFitness(eliteEnsemble[k])])
                    \div Len(eliteEnsemble)
            targetElite == eliteEnsemble[Min(target, Len(eliteEnsemble))]
            applied == {i \in DOMAIN observers :
                            ~isEliteMember(evaluatedObservers[i], eliteEnsemble)}
        IN  probe' = [calls |-> probe.calls + 1,
                      call |-> Some([observers |-> evaluatedObservers,
                                     eliteEnsemble |-> eliteEnsemble,
                                     targetElite |-> targetElite,
                                     eliteFitness |-> avgEliteFitness,
                                     learningRate |-> learningRate,
                                     applied |-> applied,
                                     evolved |->
                                        [i \in DOMAIN observers |->
                                            IF i \in applied
                                            THEN evolveObserver(evaluatedObservers[i], targetElite,
                                                                avgEliteFitness, learningRate)
                                            ELSE evaluatedObservers[i]]])]
    /\ UNCHANGED controllerVars

SpecEvolve == InitEvolve /\ [][EvolveCall]_vars

Between(x, a, b) == (a <= x /\ x <= b) \/ (b <= x /\ x <= a)

-----------------------------------------------------------------------------
(* The elite a step publishes and the confidence of its signal.  The guild
   here holds the observers with their predicted values and genes, eliteN and
   eliteReward; prices are whole numbers. *)

\* variant of eliteObserver: the last-ranked member of the ensemble
eliteObserverLastRanked(eliteEnsemble) == eliteEnsemble[Len(eliteEnsemble)]

\* const eliteObserver = eliteEnsemble[0]
eliteObserver(eliteEnsemble) == eliteEnsemble[1]

\* the price the step's signal is entered at, and the price before it
PublishNextClose == 102
PublishCurrentPrice == 101

\* what a step draws: the rewards it evaluates, and the observers whose
\* prediction it moves half of the way toward the elite or replaces by a
\* value near the next price
PublishInputs(n) ==
    [rewards : EvolveRewards(n), moved : {{}, 1..n}, replaced : {{}, {1, n}}]

\* setGuild({ ..., observers, eliteN: null, eliteReward: -1 }) of initializeSimulation
InitPublish ==
    /\ ControllerInit
    /\ \E n \in (MaxPopulation - 1)..MaxPopulation :
        probe = [calls |-> 0,
                 guild |-> [observers |-> FreshGenePopulation(n, 1),
                            eliteN |-> Null, eliteReward |-> -100],
                 call |-> Null]

\* the setGuild updater of runSimulationStep: evaluation, elite, signal,
\* evolution and mutation, and the guild it returns
PublishStep ==
    /\ probe.calls < MaxCalls
    /\ \E in \in PublishInputs(Len(probe.guild.observers)) :
        LET prevGuild == probe.guild
            evaluatedObservers ==
                [i \in DOMAIN prevGuild.observers |->
                    [prevGuild.observers[i] EXCEPT !.reward = in.rewards[i]]]
            eliteEnsemble == selectEliteEnsemble(evaluatedObservers, TopN)
            newEliteN == eliteObserver(eliteEnsemble).n
            newEliteReward == eliteObserver(eliteEnsemble).reward
            quiet == [i \in DOMAIN evaluatedObservers |->
                        [returns |-> TRUE, mutated |-> {},
                         noise |-> [gene \in GeneNames |-> 0]]]
            withGenes == evolvedObservers(prevGuild.observers, 50,
                            [rewards |-> in.rewards, target |-> 1, random |-> quiet])
            finalObservers ==
                [i \in DOMAIN withGenes |->
                    LET obs == evaluatedObservers[i]
                        towardElite ==
                            IF ~isEliteMember(obs, eliteEnsemble) /\ i \in in.moved
                            THEN obs.n + (newEliteN - obs.n) \div 2
                            ELSE obs.n
                    IN  [withGenes[i] EXCEPT
                            !.n = IF i \in in.replaced THEN PublishNextClose + 3
                                  ELSE towardElite]]
            ecologyFeatures == EcologyFeatures(newEliteReward, 20, 7, 6)
            predictedDirection == IF newEliteN > PublishCurrentPrice THEN "UP" ELSE "DOWN"
            signal == generateTradingSignal(prevGuild.eliteReward, predictedDirection,
                                            Some(ecologyFeatures))
        IN  probe' = [calls |-> probe.calls + 1,
                      guild |-> [observers |-> finalObservers,
                                 eliteN |-> Some(newEliteN),
                                 eliteReward |-> newEliteReward],
                      call |-> Some([evaluatedObservers |-> evaluatedObservers,
                                     eliteEnsemble |-> eliteEnsemble,
                                     signal |-> signal])]
    /\ UNCHANGED controllerVars

SpecPublish == InitPublish /\ [][PublishStep]_vars

\* C35: after a step the guild's eliteN and eliteReward are the predicted
\* value and the reward, as evaluated in the step before evolution and
\* mutation, of the first-ranked member of the step's elite ensemble; the
\* signal of the step has as its confidence the eliteReward the guild held
\* before the step (published by the step before), not the reward just
\* evaluated.
C35_PublishedEliteAndLaggedConfidence ==
    [][probe'.calls # probe.calls =>
        LET call == probe'.call[1]
            first == call.eliteEnsemble[1]
        IN  /\ \E i \in DOMAIN call.evaluatedObservers :
                call.evaluatedObservers[i]
                    = [first EXCEPT !.fitness = call.evaluatedObservers[i].fitness]
            /\ \A i \in DOMAIN call.evaluatedObservers :
                calculateFitness(call.evaluatedObservers[i]) <= calculateFitness(first)
            /\ probe'.guild.eliteN = Some(first.n)
            /\ probe'.guild.eliteReward = first.reward
            /\ call.signal.confidence = probe.guild.eliteReward
            /\ call.signal.ecologyFeatures[1].confidence = first.reward]_vars

\* a second step whose signal carries the reward published by the first,
\* which differs from the reward the second step evaluates, and after which
\* the first-ranked observer's prediction has been replaced
C35_Witness ==
    /\ probe.calls = 2
    /\ probe.call[1].signal.confidence = 80
    /\ probe.guild.eliteReward = 50
    /\ \E i \in DOMAIN probe.guild.observers :
        /\ probe.guild.observers[i].id = probe.call[1].eliteEnsemble[1].id
        /\ Some(probe.guild.observers[i].n) # probe.guild.eliteN

-----------------------------------------------------------------------------
(* Experiences and credit of one step *)

\* the experience a step appended to the observer's buffer
LastExperience(observer) == observer.experienceBuffer[Len(observer.experienceBuffer)]

\* C36: after a step, the experience the step appended to an observer has
\* wasExecuted = true exactly when the credit assignment of the step marked
\* the observer contributedToTrade; when the step closed no position the
\* experience has wasExecuted = false and outcome = 0, and when a position is
\* closed on a HOLD signal (by stop-loss or take-profit) no observer gets an
\* executed experience.
C36_ExecutedExactlyWhenCredited ==
    lastEvent.kind = "step" =>
        \A i \in DOMAIN guild[1].observers :
            LET observer == guild[1].observers[i]
                experience == LastExperience(observer)
                credited == ~IsNull(lastEvent.credit.position) /\ observer.contributedToTrade
            IN  /\ experience.wasExecuted <=> credited
                /\ IsNull(lastEvent.closedPosition) =>
                        (~experience.wasExecuted /\ experience.outcome = 0)
                /\ (~IsNull(lastEvent.closedPosition) /\ lastEvent.signal.action = "HOLD") =>
                        ~experience.wasExecuted

-----------------------------------------------------------------------------
(* The first step after an initialisation *)

\* C37: every (re)initialisation leaves the guild with eliteReward = -1, and
\* the step that follows it generates a signal with confidence -1 and action
\* HOLD and opens no position.
C37_FirstStepHolds ==
    [][/\ (lastEvent'.kind # "step" /\ ~IsNull(guild') /\ currentTimeStep' = StartIndex)
            => guild'[1].eliteReward = -100
       /\ (lastEvent'.kind = "step" /\ currentTimeStep = StartIndex)
            => /\ guild[1].eliteReward = -100
               /\ lastEvent'.signal.confidence = -100
               /\ lastEvent'.signal.action = "HOLD"
               /\ \/ tradingStats'.currentPosition = Null
                  \/ tradingStats'.currentPosition = tradingStats.currentPosition]_vars

\* the first step of a later epoch, on a guild set up again from the
\* preserved observers
C37_Witness ==
    /\ lastEvent.kind = "step"
    /\ currentTimeStep = StartIndex + 1
    /\ lastEvent.signal.confidence = -100
    /\ lastEvent.signal.action = "HOLD"
    /\ trainingState.epochsCompleted >= 1
    /\ ~IsNull(preservedObserversRef)

-----------------------------------------------------------------------------
(* Trading statistics and the position history *)

\* the counters and the total of the statistics are those of their history
StatsMatchHistory(stats) ==
    /\ stats.totalTrades = Len(stats.positionHistory)
    /\ stats.winningTrades + stats.losingTrades = stats.totalTrades
    /\ stats.winningTrades
         = Cardinality({k \in DOMAIN stats.positionHistory : stats.positionHistory[k].pnl[1] > 0})
    /\ stats.totalPnL = SumPnl(stats.positionHistory)

\* C38: the trading statistics are consistent with the position history:
\* totalTrades is its length, winningTrades + losingTrades = totalTrades (a
\* pnl <= 0 is a loss), totalPnL is the sum of the pnl of its positions; and
\* the history only grows, by the position a step closed, the entries it holds
\* unchanged, until an initialisation resets it.
C38_StatsMatchGrowingHistory ==
    [][/\ StatsMatchHistory(tradingStats')
       /\ \/ tradingStats'.positionHistory = tradingStats.positionHistory
             /\ (lastEvent'.kind = "step" => IsNull(lastEvent'.closedPosition))
          \/ /\ lastEvent'.kind = "step"
             /\ ~IsNull(lastEvent'.closedPosition)
             /\ tradingStats'.positionHistory
                  = Append(tradingStats.positionHistory, lastEvent'.closedPosition[1])
          \/ /\ lastEvent'.kind # "step"
             /\ currentTimeStep' = StartIndex
             /\ tradingStats' = InitialTradingStats]_vars

\* a history of a win and a loss, carried over an epoch boundary
C38_Witness ==
    /\ Len(tradingStats.positionHistory) >= 2
    /\ tradingStats.winningTrades >= 1
    /\ tradingStats.losingTrades >= 1
    /\ trainingState.epochsCompleted >= 1
    /\ StatsMatchHistory(tradingStats)

-----------------------------------------------------------------------------
(* The step index *)

\* C39: on a series of length L >= 62 the step index starts at 60, grows by
\* exactly 1 with every step, stays within 60 .. L-2 and goes back only to 60,
\* by an initialisation; a step reads candles inside 0 .. L-1 only; and a tick
\* at the end of the series leaves the step index, the guild and the trading
\* statistics as they are; the only change that can follow it is the
\* initialisation started by the setParams of an epoch end that cycles the
\* timeframe, which puts the preserved population back at index 60.
C39_StepIndexWithinSeries ==
    [][(~IsNull(marketData') /\ marketData'[1].series.length >= MinimumWindow) =>
        LET L == marketData'[1].series.length
        IN  /\ currentTimeStep' >= StartIndex
            /\ currentTimeStep' <= L - 2
            /\ lastEvent'.kind = "step" =>
                /\ currentTimeStep' = currentTimeStep + 1
                /\ candlesRead(currentTimeStep') \subseteq 0..(L - 1)
            /\ lastEvent'.kind # "step" =>
                \/ currentTimeStep' = currentTimeStep
                \/ currentTimeStep' = StartIndex /\ reinitialized'
            /\ lastEvent'.kind \in {"endOfData", "epochEnd"} =>
                \/ /\ currentTimeStep' = currentTimeStep
                   /\ guild' = guild
                   /\ tradingStats' = tradingStats
                \/ /\ lastEvent'.kind = "epochEnd"
                   /\ params.cycleTimeframes
                   /\ guild'[1].observers = preservedObserversRef'[1]
                   /\ currentTimeStep' = StartIndex
                   /\ reinitialized']_vars

\* the step onto the last index a step may reach, and the tick after it
C39_Witness ==
    /\ lastEvent.kind = "endOfData"
    /\ currentTimeStep = marketData[1].series.length - 2
    /\ currentTimeStep = StartIndex + PassSteps
    /\ ~IsNull(guild)

-----------------------------------------------------------------------------
(* Early stopping in the training controller *)

\* the records of a history that carry a validation field
ValidationBearing(epochMetrics) ==
    SelectSeq(epochMetrics, LAMBDA m : ~IsNull(m.validationWinRate) \/ ~IsNull(m.validationPnL))

\* a training run has reached its target: targetEpochs epochs are counted
\* as completed, or the history holds a record for each of them
ReachedTargetEpochs(state, targetEpochs) ==
    \/ state.epochsCompleted >= targetEpochs
    \/ Len(state.epochMetrics) >= targetEpochs

\* C40: a record that the end of an epoch builds with calculateEpochMetrics
\* has neither validationWinRate nor validationPnL; shouldStopEarly on the
\* history with that record is true only when the history holds at least
\* three validation-bearing records, every one of them a record of a loaded
\* checkpoint; and a tick ends training only by an early stop of that kind or
\* when the run has reached targetEpochs.
C40_EarlyStopOnlyFromCheckpointHistory ==
    [][LET history == trainingState'.epochMetrics
           stops == /\ lastEvent'.kind = "epochEnd"
                    /\ shouldStopEarly(history, Patience, MinEpochs)
       IN  /\ lastEvent'.kind = "epochEnd" =>
                /\ IsNull(lastEvent'.metrics.validationWinRate)
                /\ IsNull(lastEvent'.metrics.validationPnL)
                /\ Last(history) = lastEvent'.metrics
                /\ ValidationBearing(history) = <<>> =>
                      ~shouldStopEarly(history, Patience, MinEpochs)
           /\ stops =>
                /\ Len(ValidationBearing(history)) >= MinEpochs
                /\ \E text \in CheckpointTexts :
                      Elements(ValidationBearing(history)) \subseteq
                          Elements(text.trainingMetrics)
                /\ ~trainingState'.isTraining
                /\ ~isRunning'
           /\ (trainingState.isTraining /\ ~trainingState'.isTraining
                    /\ ticks' = ticks + 1) =>
                \/ stops
                \/ ReachedTargetEpochs(trainingState', params'.targetEpochs)]_vars

\* the part of C40 about the records and the early stop alone
EarlyStopOnlyFromCheckpointHistory ==
    [][LET history == trainingState'.epochMetrics
       IN  lastEvent'.kind = "epochEnd" =>
                /\ IsNull(lastEvent'.metrics.validationWinRate)
                /\ IsNull(lastEvent'.metrics.validationPnL)
                /\ shouldStopEarly(history, Patience, MinEpochs) =>
                      /\ Len(ValidationBearing(history)) >= MinEpochs
                      /\ \E text \in CheckpointTexts :
                            Elements(ValidationBearing(history)) \subseteq
                                Elements(text.trainingMetrics)]_vars

====
